---- MODULE Spec2Model ----
(***************************************************************************)
(* State-machine model of the AiGameCompanion overlay: the shared AppState *)
(* record (state.rs), the per-frame render callback (lib.rs), the chat     *)
(* panel drawer (ui.rs) and the background request task (api.rs + the      *)
(* write-back closure spawned in ui.rs).                                   *)
(*                                                                         *)
(* Text is a sequence of one-character strings, so that trim, push_str and *)
(* format! are computed and not assumed.  Option<String> is <<>> for None  *)
(* and <<s>> for Some(s).                                                  *)
(***************************************************************************)
EXTENDS Integers, Sequences, FiniteSets, TLC

(***************************************************************************)
(* Bounds of the model.                                                    *)
(***************************************************************************)
\* request_generation is a u64; user actions that bump it are cut off here.
MaxGen == 3
\* text fragments one streamed response may deliver
MaxChunks == 2
\* requests spawned in one run
MaxTasks == 2
\* longest conversation the history-trimming specification draws, counted
\* beyond MAX_HISTORY_MESSAGES
TrimSlack == 3
\* failed or cancelled sends (a user turn followed by a user turn) in a
\* conversation the history-trimming specification draws
MaxRetries == 2
\* function keys held down at once when a frame samples the keyboard
MaxKeysDown == 1
\* frames in a row the toggle key is held down
MaxHeld == 2
\* process identifiers the machine hands out (and hands out again)
MaxPid == 3
\* injections of the library one process takes
MaxLoads == 2
\* largest --timeout, in seconds
MaxTimeout == 3
\* longest file-name stem the executable-name cleanup is checked on
MaxStem == 4
\* most top-level windows in one enumeration
MaxWindows == 2
\* largest screen coordinate of a window rectangle
MaxCoord == 2

(***************************************************************************)
(* Program constants.                                                      *)
(***************************************************************************)
MAX_HISTORY_MESSAGES == 50
\* lib.rs: VK_F9, the virtual-key code render() samples (0x78)
VK_F9 == 120
\* lib.rs: for _ in 0..150, the probes of the backend auto-detection
ProbeAttempts == 150
\* lib.rs: Duration::from_millis(100) between two probes
ProbeSleepMs == 100
\* lib.rs: for i in 1..=10, the liveness polls
MonitorPolls == 10
\* lib.rs: Duration::from_secs(1) before each liveness poll, in ms
MonitorSleepMs == 1000

User == "user"
Assistant == "assistant"

None == <<>>
Some(s) == <<s>>

\* char::is_whitespace, over the alphabet the model types
Whitespace == {" ", "\n", "\t", "\r"}

\* What the user can have in the text field when a frame reads it.
InputTexts == { <<>>, <<" ">>, <<" ", "q", "\n">> }

\* The text of the k-th non-empty fragment of a streamed response.
Letters == <<"a", "b", "c", "d">>
Fragment(k) == <<Letters[k]>>

\* How the transport can fail before any status arrives.
TransportKinds == {"timeout"}

\* HTTP statuses the remote answers with: success, the statuses the mapping
\* names, and one it does not name.
Statuses == {200, 400, 403, 404, 429, 500, 503}

\* config.rs: the hotkey names parse_vk_code knows
HotkeyNames == {"F1", "F2", "F3", "F4", "F5", "F6", "F7", "F8", "F9", "F10",
                "F11", "F12"}

\* config.rs: parse_vk_code, on an upper-case name (0x70 .. 0x7B)
parse_vk_code(name) ==
    CASE name = "F1" -> <<112>>
      [] name = "F2" -> <<113>>
      [] name = "F3" -> <<114>>
      [] name = "F4" -> <<115>>
      [] name = "F5" -> <<116>>
      [] name = "F6" -> <<117>>
      [] name = "F7" -> <<118>>
      [] name = "F8" -> <<119>>
      [] name = "F9" -> <<120>>
      [] name = "F10" -> <<121>>
      [] name = "F11" -> <<122>>
      [] name = "F12" -> <<123>>
      [] OTHER -> <<>>

\* The function keys, by virtual-key code, and what a frame can find down.
FunctionKeys == {parse_vk_code(n)[1] : n \in HotkeyNames}
KeySets == {k \in SUBSET FunctionKeys : Cardinality(k) <= MaxKeysDown}

\* GetAsyncKeyState(vk) & (1 << 15) != 0, keys being the keys that are down
GetAsyncKeyState(vk, keys) == vk \in keys

\* config.rs: GraphicsApi
Dx12 == "dx12"
Dx11 == "dx11"
Dx9 == "dx9"
Opengl == "opengl"
GraphicsApi == {Dx12, Dx11, Dx9, Opengl}

\* The modules the host can have loaded.
Modules == {"dxgi.dll", "d3d12.dll", "d3d11.dll", "d3d9.dll", "opengl32.dll"}

\* lib.rs: is_module_loaded
is_module_loaded(name, mods) == name \in mods

\* Mutant of detect_graphics_api: d3d11.dll is probed before d3d12.dll.
detect_graphics_api_Dx11First(mods) ==
    IF is_module_loaded("d3d11.dll", mods) THEN <<Dx11>>
    ELSE IF is_module_loaded("d3d12.dll", mods) THEN <<Dx12>>
    ELSE IF is_module_loaded("d3d9.dll", mods) THEN <<Dx9>>
    ELSE IF is_module_loaded("opengl32.dll", mods) THEN <<Opengl>>
    ELSE <<>>

\* lib.rs: detect_graphics_api, DX12 > DX11 > DX9 > OpenGL
detect_graphics_api(mods) ==
    IF is_module_loaded("d3d12.dll", mods) THEN <<Dx12>>
    ELSE IF is_module_loaded("d3d11.dll", mods) THEN <<Dx11>>
    ELSE IF is_module_loaded("d3d9.dll", mods) THEN <<Dx9>>
    ELSE IF is_module_loaded("opengl32.dll", mods) THEN <<Opengl>>
    ELSE <<>>

\* The phases of the bootstrap worker, in the order DllMain runs them.
BootOrder == <<"handle", "worker", "tracing", "dxgi", "backend", "settle",
               "game", "log", "hooks">>

(***************************************************************************)
(* Pure helpers.                                                           *)
(***************************************************************************)
RECURSIVE TrimStart(_)
TrimStart(s) ==
    IF s # <<>> /\ Head(s) \in Whitespace THEN TrimStart(Tail(s)) ELSE s

RECURSIVE TrimEnd(_)
TrimEnd(s) ==
    IF s # <<>> /\ s[Len(s)] \in Whitespace
    THEN TrimEnd(SubSeq(s, 1, Len(s) - 1))
    ELSE s

\* Mutant of Trim: only the end is trimmed.
Trim_EndOnly(s) == TrimEnd(s)

\* str::trim
Trim(s) == TrimEnd(TrimStart(s))

\* ChatMessage { role, content }
ChatMessage(r, c) == [role |-> r, content |-> c]

\* Mutant of FormatCancelled: the marker is glued to the partial text.
FormatCancelled_NoSpace(partial) == partial \o Tail(<<" ", "[", "c", "a", "n", "c", "e", "l", "l", "e", "d", "]">>)

\* format!("{} [cancelled]", streaming_response)
CancelledSuffix == <<" ", "[", "c", "a", "n", "c", "e", "l", "l", "e", "d", "]">>
FormatCancelled(partial) == partial \o CancelledSuffix

CancelledError == "Cancelled."
ScreenshotFailedError == "Screenshot capture failed - sending text only."

\* Mutant of StatusError: every refusal gets the generic string.
StatusError_Generic(code) ==
    "API error (HTTP " \o ToString(code) \o ")."

\* api.rs: the status -> user-visible string of a non-success answer
StatusError(code) ==
    CASE code = 400 -> "Bad request. Try a shorter message."
      [] code = 403 -> "Invalid API key. Check config.toml."
      [] code = 429 -> "Rate limited. Free tier allows ~250 requests/day."
      [] code \in {500, 503} -> "API server error. Try again."
      [] OTHER -> "API error (HTTP " \o ToString(code) \o ")."

\* Mutant of TrimStartIndex: the slice is cut at 50 whatever turn comes first.
TrimStartIndex_NoAdjust(msgs) ==
    IF Len(msgs) > MAX_HISTORY_MESSAGES
    THEN Len(msgs) - MAX_HISTORY_MESSAGES
    ELSE 0

\* api.rs: first index (0-based) of the slice sent to the remote
TrimStartIndex(msgs) ==
    IF Len(msgs) > MAX_HISTORY_MESSAGES
    THEN LET start == Len(msgs) - MAX_HISTORY_MESSAGES
         IN  IF msgs[start + 1].role = Assistant THEN start + 1 ELSE start
    ELSE 0

\* api.rs: messages[start..].to_vec(), or the history as it is
TrimHistory(msgs) == SubSeq(msgs, TrimStartIndex(msgs) + 1, Len(msgs))

(***************************************************************************)
(* State.                                                                  *)
(***************************************************************************)
VARIABLES
    \* AppState (state.rs), behind the STATE mutex
    visible, messages, input_buffer, attach_screenshot, is_loading, error,
    request_generation, streaming_response,
    capture_pending, capture_wait_frames, captured_screenshot,
    send_pending_capture,
    \* CONFIG.api.key.is_empty(), fixed for the process
    api_key_empty,
    \* CompanionRenderLoop
    f9_was_pressed,
    \* the render thread: its position in render()/draw_panel() and the
    \* locals of the frame
    rpc, snap_is_loading, snap_attach, input_buf, generation,
    messages_clone, screenshot, panel_drawn, capture_called,
    \* the tasks spawned on RUNTIME, in spawn order
    tasks,
    \* history-trimming specification: the conversation in STATE, the
    \* clone handed to send_message and the slice it sends
    conv, given, sent,
    \* CONFIG.overlay.hotkey; the function keys that were down when the last
    \* frame sampled the keyboard, and for how many frames in a row F9 was
    hotkey, keys_down, frames_held,
    \* what message_filter returned for the input event the host is handling
    filter,
    \* the bootstrap worker of DllMain: its position, DLL_HINSTANCE, the
    \* modules loaded in the host, CONFIG.overlay.graphics_api, the probe
    \* counter, the chosen backend, STATE.game_name, LOG_PATH initialised,
    \* the hooks, the liveness polls, the warning, the phases completed and
    \* why the worker ejected
    bpc, dll_hinstance, modules, graphics_api, probes, api, game_name,
    session_log, hooks, polls, warned, phases, eject_reason,
    \* RENDER_ACTIVE and CompanionRenderLoop.logged_first_render
    RENDER_ACTIVE, logged_first_render,
    \* the processes of the machine the injector runs on: the name of the
    \* process each PID belongs to ("none": no such process), and how many
    \* times the library was injected into it
    os, loaded,
    \* injector, watch_mode: its position, the tracking structures, the
    \* snapshot of the tick and what of it is still to scan, the PIDs an
    \* attempt was made for in this tick, and the names whose exit was
    \* logged
    wpc, injected_pids, active_injections, procs, todo, attempted,
    exit_observed,
    \* injector, inject_one_shot: --timeout, the seconds elapsed since start,
    \* its position, and the lookups and injection attempts made
    timeout_secs, elapsed, opc, lookups, inject_attempts,
    \* game_detect.rs: the path GetModuleFileNameW reports for the host
    \* (none: the call failed), CONFIG.games, the top-level windows EnumWindows
    \* walks, the position of detect_game_name and what it returned
    exe_path, games, windows, dpc, detect_result,
    \* capture.rs capture_gdi: its position, the locals hwnd, rect, hdc_screen,
    \* hdc_mem, hbitmap and old_object (0: null or invalid), how often each
    \* kind of handle was acquired and released in this call, and the result
    gpc, hwnd, rect, hdc_screen, hdc_mem, hbitmap, old_object, acquired,
    released, gdi_result,
    \* logging.rs: the exchanges appended to the session log file after its
    \* header
    log_entries,
    \* api.rs send_message, the stream loop: the bytes of the response body,
    \* the bytes the transport has not delivered yet, the locals buffer and
    \* full_text, the chunk_texts pushed so far, everything from_utf8_lossy
    \* has returned so far, the position of the loop and what send_message
    \* returned
    sse_body, sse_rest, buffer, full_text, fragments, decoded, spc,
    stream_result,
    \* state.rs STATE: which thread holds the mutex ("none": free), and the
    \* line each thread that takes it stands at
    lock_holder, lpc

stateVars == <<visible, messages, input_buffer, attach_screenshot, is_loading,
               error, request_generation, streaming_response>>
captureVars == <<capture_pending, capture_wait_frames, captured_screenshot,
                 send_pending_capture>>
frameVars == <<rpc, snap_is_loading, snap_attach, input_buf, generation,
               messages_clone, screenshot, panel_drawn, capture_called>>
trimVars == <<conv, given, sent>>
keyVars == <<hotkey, keys_down, frames_held>>
bootVars == <<bpc, dll_hinstance, modules, graphics_api, probes, api,
              game_name, session_log, hooks, polls, warned, phases,
              eject_reason>>
activeVars == <<RENDER_ACTIVE, logged_first_render>>
osVars == <<os, loaded>>
watchVars == <<wpc, injected_pids, active_injections, procs, todo, attempted,
               exit_observed>>
shotVars == <<timeout_secs, elapsed, opc, lookups, inject_attempts>>
\* the injector is another program, on its own process
loaderVars == <<osVars, watchVars, shotVars>>
detectVars == <<exe_path, games, windows, dpc, detect_result>>
gdiVars == <<gpc, hwnd, rect, hdc_screen, hdc_mem, hbitmap, old_object,
             acquired, released, gdi_result>>
logVars == <<log_entries>>
sseVars == <<sse_body, sse_rest, buffer, full_text, fragments, decoded, spc,
    stream_result>>
lockVars == <<lock_holder, lpc>>
\* the functions that are specified on their own, the log file and the mutex
toolVars == <<detectVars, gdiVars, logVars, sseVars, lockVars>>
\* what no step of the chat touches
sideVars == <<trimVars, keyVars, filter, bootVars, activeVars, loaderVars, toolVars>>
vars == <<stateVars, captureVars, api_key_empty, f9_was_pressed, frameVars,
          tasks, trimVars, keyVars, filter, bootVars, activeVars, loaderVars, toolVars>>

\* AppState::default()
StateInit ==
    /\ visible = FALSE
    /\ messages = <<>>
    /\ input_buffer = <<>>
    /\ attach_screenshot = FALSE
    /\ is_loading = FALSE
    /\ error = None
    /\ request_generation = 0
    /\ streaming_response = <<>>
    /\ capture_pending = FALSE
    /\ capture_wait_frames = 0
    /\ captured_screenshot = None
    /\ send_pending_capture = FALSE

\* CompanionRenderLoop::new(), no frame in progress
RenderInit ==
    /\ f9_was_pressed = FALSE
    /\ rpc = "idle"
    /\ snap_is_loading = FALSE
    /\ snap_attach = FALSE
    /\ input_buf = <<>>
    /\ generation = None
    /\ messages_clone = <<>>
    /\ screenshot = None
    /\ panel_drawn = FALSE
    /\ capture_called = FALSE

TrimIdle == conv = <<>> /\ given = <<>> /\ sent = None

\* The default hotkey, no key sampled yet, no input event being handled.
InputIdle ==
    /\ hotkey = "F9"
    /\ keys_down = {}
    /\ frames_held = 0
    /\ filter = "none"

\* The injector has not been started.
LoaderIdle ==
    /\ os = [pid \in 1..MaxPid |-> "none"]
    /\ loaded = [pid \in 1..MaxPid |-> 0]
    /\ wpc = "off"
    /\ injected_pids = {}
    /\ active_injections = <<>>
    /\ procs = {}
    /\ todo = {}
    /\ attempted = {}
    /\ exit_observed = {}
    /\ timeout_secs = 0
    /\ elapsed = 0
    /\ opc = "off"
    /\ lookups = 0
    /\ inject_attempts = 0

\* capture.rs: the kinds of native handle capture_gdi acquires
HandleKinds == {"screen_dc", "mem_dc", "bitmap", "selection"}

\* logging.rs init_session_log: the file holds the header and no exchange.
LogEmpty == log_entries = <<>>

\* No response body is being read.
StreamIdle ==
    /\ sse_body = <<>>
    /\ sse_rest = <<>>
    /\ buffer = <<>>
    /\ full_text = <<>>
    /\ fragments = <<>>
    /\ decoded = <<>>
    /\ spc = "off"
    /\ stream_result = <<>>

\* The threads that take the STATE mutex once the hooks are installed: the
\* host's render thread, the thread that dispatches input, the tasks spawned
\* for requests and the task of a local translation.
TaskThreads == {"task1", "task2"}
Threads == {"render", "filter", "translate"} \cup TaskThreads

\* The locking of the threads is not followed.
LockIdle ==
    /\ lock_holder = "none"
    /\ lpc = [th \in Threads |-> "off"]

\* detect_game_name and capture_gdi are not running.
ToolIdle ==
    /\ LockIdle
    /\ StreamIdle
    /\ LogEmpty
    /\ exe_path = <<>>
    /\ games = <<>>
    /\ windows = <<>>
    /\ dpc = "off"
    /\ detect_result = <<>>
    /\ gpc = "off"
    /\ hwnd = 0
    /\ rect = [left |-> 0, top |-> 0, right |-> 0, bottom |-> 0]
    /\ hdc_screen = 0
    /\ hdc_mem = 0
    /\ hbitmap = 0
    /\ old_object = 0
    /\ acquired = [k \in HandleKinds |-> 0]
    /\ released = [k \in HandleKinds |-> 0]
    /\ gdi_result = <<>>

\* The bootstrap worker has installed the DX12 hooks and parked, and the
\* host has not called render() yet.
BootParked ==
    /\ bpc = "parked"
    /\ dll_hinstance = Some("hmodule")
    /\ modules = {"dxgi.dll", "d3d12.dll"}
    /\ graphics_api = None
    /\ probes = 0
    /\ api = Some(Dx12)
    /\ game_name = None
    /\ session_log = TRUE
    /\ hooks = "applied"
    /\ polls = MonitorPolls
    /\ warned = TRUE
    /\ phases = BootOrder
    /\ eject_reason = "none"
    /\ RENDER_ACTIVE = FALSE
    /\ logged_first_render = FALSE

Init ==
    /\ StateInit
    /\ RenderInit
    /\ api_key_empty \in BOOLEAN
    /\ tasks = <<>>
    /\ TrimIdle
    /\ InputIdle
    /\ BootParked
    /\ LoaderIdle
    /\ ToolIdle

(***************************************************************************)
(* Critical sections of draw_panel (ui.rs).  Each is one STATE.lock()      *)
(* scope and so one atomic step.                                           *)
(***************************************************************************)
\* Mutant of CancelSection: Cancel does not invalidate the request in flight.
CancelSection_NoBump ==
    /\ IF streaming_response # <<>>
       THEN /\ messages' = Append(messages,
                   ChatMessage(Assistant, FormatCancelled(streaming_response)))
            /\ streaming_response' = <<>>
       ELSE UNCHANGED <<messages, streaming_response>>
    /\ is_loading' = FALSE
    /\ error' = Some(CancelledError)
    /\ UNCHANGED <<visible, input_buffer, attach_screenshot,
                   request_generation>>

\* ui.rs: the Cancel button's critical section
CancelSection ==
    /\ IF streaming_response # <<>>
       THEN /\ messages' = Append(messages,
                   ChatMessage(Assistant, FormatCancelled(streaming_response)))
            /\ streaming_response' = <<>>
       ELSE UNCHANGED <<messages, streaming_response>>
    /\ is_loading' = FALSE
    /\ request_generation' = request_generation + 1
    /\ error' = Some(CancelledError)
    /\ UNCHANGED <<visible, input_buffer, attach_screenshot>>

\* Mutant of SendSection: Send reuses the current generation.
SendSection_NoBump ==
    LET text == Trim(input_buffer) IN
    IF text # <<>>
    THEN /\ messages' = Append(messages, ChatMessage(User, text))
         /\ input_buffer' = <<>>
         /\ is_loading' = TRUE
         /\ error' = None
         /\ streaming_response' = <<>>
         /\ generation' = Some(request_generation)
         /\ UNCHANGED <<visible, attach_screenshot, request_generation>>
    ELSE /\ generation' = None
         /\ UNCHANGED stateVars

\* ui.rs: the Send handler's critical section; generation is what it returns
SendSection ==
    LET text == Trim(input_buffer) IN
    IF text # <<>>
    THEN /\ messages' = Append(messages, ChatMessage(User, text))
         /\ input_buffer' = <<>>
         /\ is_loading' = TRUE
         /\ error' = None
         /\ request_generation' = request_generation + 1
         /\ streaming_response' = <<>>
         /\ generation' = Some(request_generation + 1)
         /\ UNCHANGED <<visible, attach_screenshot>>
    ELSE /\ generation' = None
         /\ UNCHANGED stateVars

\* Mutant of ClearSection: Clear Chat does not invalidate the request in
\* flight.
ClearSection_NoBump ==
    /\ messages' = <<>>
    /\ error' = None
    /\ is_loading' = FALSE
    /\ streaming_response' = <<>>
    /\ UNCHANGED <<visible, input_buffer, attach_screenshot,
                   request_generation>>

\* Mutant of ClearSection: Clear Chat leaves the accumulator as it is.
ClearSection_KeepsAccumulator ==
    /\ messages' = <<>>
    /\ error' = None
    /\ is_loading' = FALSE
    /\ request_generation' = request_generation + 1
    /\ UNCHANGED <<visible, input_buffer, attach_screenshot,
                   streaming_response>>

\* ui.rs: the Clear Chat button's critical section
ClearSection ==
    /\ messages' = <<>>
    /\ error' = None
    /\ is_loading' = FALSE
    /\ streaming_response' = <<>>
    /\ request_generation' = request_generation + 1
    /\ UNCHANGED <<visible, input_buffer, attach_screenshot>>

(***************************************************************************)
(* The render thread: CompanionRenderLoop::render and draw_panel, one step *)
(* per critical section.  What the user does in a frame (typing, Enter, a  *)
(* click, the checkbox) is the input of the step that reads it.            *)
(***************************************************************************)
\* ui.rs: send_enabled
SendEnabled(buf) == Trim(buf) # <<>>

\* ui.rs: which handler of the input row runs in this frame: Cancel replaces
\* Send while the snapshot says loading; Send needs a non-blank text field
\* and the button or Enter
InputRow(loading, buf, enter, pressed) ==
    IF loading
    THEN IF pressed THEN "cancel" ELSE "checkbox"
    ELSE IF (pressed \/ enter) /\ SendEnabled(buf) THEN "send" ELSE "checkbox"

\* Mutant of HotkeyToggle: the key toggles in every frame it is down.
HotkeyToggle_Level(f9_pressed) ==
    IF f9_pressed THEN ~visible ELSE visible

\* lib.rs render(): the rising edge of the hotkey flips visible
HotkeyToggle(f9_pressed) ==
    IF f9_pressed /\ ~f9_was_pressed THEN ~visible ELSE visible

\* lib.rs render() up to the snapshot that opens draw_panel: the hotkey,
\* then, when visible, the snapshot under the lock, the text widget, the
\* Enter key and the button of the input row.  Only this thread touches
\* visible, so the two locks make one step.
RenderBegin(f9_pressed, typed, enter, pressed) ==
    /\ rpc = "idle"
    /\ hooks = "applied"
    /\ RENDER_ACTIVE' = IF ~logged_first_render THEN TRUE ELSE RENDER_ACTIVE
    /\ logged_first_render' = TRUE
    /\ visible' = HotkeyToggle(f9_pressed)
    /\ f9_was_pressed' = f9_pressed
    /\ panel_drawn' = visible'
    /\ IF visible'
       THEN /\ typed \in InputTexts \cup {input_buffer}
            /\ (enter \/ pressed) =>
                  /\ request_generation < MaxGen
                  /\ is_loading \/ Len(tasks) < MaxTasks
            /\ snap_is_loading' = is_loading
            /\ snap_attach' = attach_screenshot
            /\ input_buf' = typed
            /\ rpc' = InputRow(is_loading, typed, enter, pressed)
       ELSE /\ typed = input_buffer /\ ~enter /\ ~pressed
            /\ UNCHANGED <<rpc, snap_is_loading, snap_attach, input_buf>>
    /\ UNCHANGED <<messages, input_buffer, attach_screenshot, is_loading,
                   error, request_generation, streaming_response>>
    /\ UNCHANGED <<captureVars, api_key_empty, tasks, trimVars, filter,
                   bootVars, loaderVars, toolVars>>
    /\ UNCHANGED <<generation, messages_clone, screenshot, capture_called>>

\* A frame of the chat: which function keys are down apart from the toggle
\* key is not followed.
Render(f9_pressed, typed, enter, pressed) ==
    /\ RenderBegin(f9_pressed, typed, enter, pressed)
    /\ UNCHANGED keyVars

\* ui.rs: the Cancel button was clicked
CancelClick ==
    /\ rpc = "cancel"
    /\ CancelSection
    /\ rpc' = "checkbox"
    /\ UNCHANGED <<captureVars, api_key_empty, f9_was_pressed, tasks, sideVars>>
    /\ UNCHANGED <<snap_is_loading, snap_attach, input_buf, generation,
                   messages_clone, screenshot, panel_drawn, capture_called>>

\* ui.rs: "Handle send"
SendClick ==
    /\ rpc = "send"
    /\ SendSection
    /\ rpc' = IF generation' # None THEN "clone" ELSE "checkbox"
    /\ UNCHANGED <<captureVars, api_key_empty, f9_was_pressed, tasks, sideVars>>
    /\ UNCHANGED <<snap_is_loading, snap_attach, input_buf, messages_clone,
                   screenshot, panel_drawn, capture_called>>

\* ui.rs: input_buf.clear() and the clone of the history under its own lock
SendClone ==
    /\ rpc = "clone"
    /\ input_buf' = <<>>
    /\ messages_clone' = messages
    /\ rpc' = IF snap_attach THEN "capture" ELSE "spawn"
    /\ UNCHANGED <<stateVars, captureVars, api_key_empty, f9_was_pressed,
                   tasks, sideVars>>
    /\ UNCHANGED <<snap_is_loading, snap_attach, generation, screenshot,
                   panel_drawn, capture_called>>

\* Mutant of Capture: a failed capture gives the send up.
Capture_FailureAborts(shot) ==
    /\ rpc = "capture"
    /\ shot \in {None, Some("png")}
    /\ capture_called' = TRUE
    /\ screenshot' = shot
    /\ error' = IF shot = None THEN Some(ScreenshotFailedError) ELSE error
    /\ is_loading' = (shot # None)
    /\ rpc' = IF shot = None THEN "checkbox" ELSE "spawn"
    /\ UNCHANGED <<visible, messages, input_buffer, attach_screenshot,
                   request_generation, streaming_response>>
    /\ UNCHANGED <<captureVars, api_key_empty, f9_was_pressed, tasks, sideVars>>
    /\ UNCHANGED <<snap_is_loading, snap_attach, input_buf, generation,
                   messages_clone, panel_drawn>>

\* ui.rs: capture::capture_screenshot() called from draw_panel; a failed
\* capture sets error under its own lock and the send goes on text-only
Capture(shot) ==
    /\ rpc = "capture"
    /\ shot \in {None, Some("png")}
    /\ capture_called' = TRUE
    /\ screenshot' = shot
    /\ error' = IF shot = None THEN Some(ScreenshotFailedError) ELSE error
    /\ rpc' = "spawn"
    /\ UNCHANGED <<visible, messages, input_buffer, attach_screenshot,
                   is_loading, request_generation, streaming_response>>
    /\ UNCHANGED <<captureVars, api_key_empty, f9_was_pressed, tasks, sideVars>>
    /\ UNCHANGED <<snap_is_loading, snap_attach, input_buf, generation,
                   messages_clone, panel_drawn>>

(***************************************************************************)
(* A task on RUNTIME: api::send_message followed by the write-back of the  *)
(* closure spawned in draw_panel.                                          *)
(***************************************************************************)
\* Result<String, String>
Ok(t) == [ok |-> TRUE, text |-> t, err |-> ""]
Err(e) == [ok |-> FALSE, text |-> <<>>, err |-> e]

\* RUNTIME.spawn(async move { send_message(messages, screenshot, gen) ... })
NewTask(msgs, shot, gen) ==
    [gen |-> gen, pc |-> "start", messages |-> msgs, screenshot |-> shot,
     contents |-> <<>>, full_text |-> <<>>, status |-> 0]

\* ui.rs: RUNTIME.spawn
Spawn ==
    /\ rpc = "spawn"
    /\ tasks' = Append(tasks, NewTask(messages_clone, screenshot, generation[1]))
    /\ generation' = None
    /\ messages_clone' = <<>>
    /\ screenshot' = None
    /\ rpc' = "checkbox"
    /\ UNCHANGED <<stateVars, captureVars, api_key_empty, f9_was_pressed,
                   sideVars>>
    /\ UNCHANGED <<snap_is_loading, snap_attach, input_buf, panel_drawn,
                   capture_called>>

\* ui.rs: the Clear Chat button was clicked
ClearClick ==
    /\ rpc = "checkbox"
    /\ request_generation < MaxGen
    /\ ClearSection
    /\ rpc' = "writeback"
    /\ UNCHANGED <<captureVars, api_key_empty, f9_was_pressed, tasks, sideVars>>
    /\ UNCHANGED <<snap_is_loading, snap_attach, input_buf, generation,
                   messages_clone, screenshot, panel_drawn, capture_called>>

\* ui.rs: "Write back UI changes to state", the last lock of the frame;
\* toggled: the Attach Screenshot checkbox was clicked in this frame
FrameWriteBack(toggled) ==
    /\ rpc \in {"checkbox", "writeback"}
    /\ input_buffer' = input_buf
    /\ attach_screenshot' = IF toggled THEN ~snap_attach ELSE snap_attach
    /\ rpc' = "idle"
    /\ snap_is_loading' = FALSE
    /\ snap_attach' = FALSE
    /\ input_buf' = <<>>
    /\ panel_drawn' = FALSE
    /\ capture_called' = FALSE
    /\ UNCHANGED <<visible, messages, is_loading, error, request_generation,
                   streaming_response>>
    /\ UNCHANGED <<captureVars, api_key_empty, f9_was_pressed, tasks, sideVars>>
    /\ UNCHANGED <<generation, messages_clone, screenshot>>

TaskIds == 1..MaxTasks

Live(t) == t \in DOMAIN tasks /\ tasks[t].pc # "done"

SetTask(t, r) == tasks' = [tasks EXCEPT ![t] = r]

\* The task has ended: its future is dropped.
Finished(t) ==
    [tasks[t] EXCEPT !.pc = "done", !.messages = <<>>, !.screenshot = None,
                     !.contents = <<>>, !.full_text = <<>>]

\* Mutant of ResultSection: the result is applied without the generation
\* check.
ResultSection_NoCheck(t, result) ==
    IF result.ok
    THEN /\ messages' = Append(messages, ChatMessage(Assistant, result.text))
         /\ streaming_response' = <<>>
         /\ is_loading' = FALSE
         /\ UNCHANGED <<visible, input_buffer, attach_screenshot, error,
                        request_generation>>
    ELSE /\ IF streaming_response # <<>>
            THEN /\ messages' = Append(messages,
                        ChatMessage(Assistant, streaming_response))
                 /\ streaming_response' = <<>>
            ELSE UNCHANGED <<messages, streaming_response>>
         /\ error' = Some(result.err)
         /\ is_loading' = FALSE
         /\ UNCHANGED <<visible, input_buffer, attach_screenshot,
                        request_generation>>

\* Mutant of ResultSection: a failed request leaves is_loading set.
ResultSection_ErrKeepsLoading(t, result) ==
    IF request_generation = tasks[t].gen
    THEN IF result.ok
         THEN /\ messages' = Append(messages, ChatMessage(Assistant, result.text))
              /\ streaming_response' = <<>>
              /\ is_loading' = FALSE
              /\ UNCHANGED <<visible, input_buffer, attach_screenshot, error,
                             request_generation>>
         ELSE /\ IF streaming_response # <<>>
                 THEN /\ messages' = Append(messages,
                             ChatMessage(Assistant, streaming_response))
                      /\ streaming_response' = <<>>
                 ELSE UNCHANGED <<messages, streaming_response>>
              /\ error' = Some(result.err)
              /\ UNCHANGED <<visible, input_buffer, attach_screenshot,
                             is_loading, request_generation>>
    ELSE UNCHANGED stateVars

\* ui.rs: the critical section after send_message returned result
ResultSection(t, result) ==
    IF request_generation = tasks[t].gen
    THEN IF result.ok
         THEN /\ messages' = Append(messages, ChatMessage(Assistant, result.text))
              /\ streaming_response' = <<>>
              /\ is_loading' = FALSE
              /\ UNCHANGED <<visible, input_buffer, attach_screenshot, error,
                             request_generation>>
         ELSE /\ IF streaming_response # <<>>
                 THEN /\ messages' = Append(messages,
                             ChatMessage(Assistant, streaming_response))
                      /\ streaming_response' = <<>>
                 ELSE UNCHANGED <<messages, streaming_response>>
              /\ error' = Some(result.err)
              /\ is_loading' = FALSE
              /\ UNCHANGED <<visible, input_buffer, attach_screenshot,
                             request_generation>>
    ELSE UNCHANGED stateVars

\* send_message returns result and the closure writes it back.  Nothing
\* between the return and the lock touches shared state, so the return and
\* the critical section make one step.
Return(t, result) ==
    /\ ResultSection(t, result)
    /\ SetTask(t, Finished(t))
    /\ UNCHANGED <<captureVars, api_key_empty, f9_was_pressed, frameVars,
                   sideVars>>

\* api.rs: map_err of CLIENT.post(..).send().await
TransportError(kind) ==
    IF kind = "timeout" THEN "Request timed out. Try again."
                        ELSE "Network error: e"

\* api.rs: config.key.is_empty()
TaskNoKey(t) ==
    /\ t \in DOMAIN tasks
    /\ tasks[t].pc = "start"
    /\ api_key_empty
    /\ Return(t, Err("No API key configured. Add your key to config.toml."))

\* api.rs: the request fails in transport
TaskTransportError(t, kind) ==
    /\ t \in DOMAIN tasks
    /\ tasks[t].pc = "start"
    /\ ~api_key_empty
    /\ kind \in TransportKinds
    /\ Return(t, Err(TransportError(kind)))

\* api.rs: the remote answers with a status: a refusal, or a stream to read.
\* The request carried the trimmed history.
TaskStatus(t, code) ==
    /\ t \in DOMAIN tasks
    /\ tasks[t].pc = "start"
    /\ ~api_key_empty
    /\ code \in Statuses
    /\ IF code = 200
       THEN /\ SetTask(t, [tasks[t] EXCEPT
                    !.pc = "stream",
                    !.status = code,
                    !.contents = TrimHistory(tasks[t].messages)])
            /\ UNCHANGED <<stateVars, captureVars, api_key_empty,
                           f9_was_pressed, frameVars, sideVars>>
       ELSE /\ ResultSection(t, Err(StatusError(code)))
            /\ SetTask(t, [Finished(t) EXCEPT !.status = code])
            /\ UNCHANGED <<captureVars, api_key_empty, f9_was_pressed,
                           frameVars, sideVars>>

\* Mutant of ChunkWrite: the fragment is appended without the generation
\* check.
ChunkWrite_NoCheck(t, frag) ==
    /\ SetTask(t, [tasks[t] EXCEPT !.full_text = @ \o frag])
    /\ streaming_response' = streaming_response \o frag
    /\ UNCHANGED <<visible, messages, input_buffer, attach_screenshot,
                   is_loading, error, request_generation>>

\* Mutant of ChunkWrite: the fragment replaces the accumulator.
ChunkWrite_Replaces(t, frag) ==
    IF request_generation # tasks[t].gen
    THEN /\ SetTask(t, [tasks[t] EXCEPT
                !.pc = "cancelled", !.full_text = @ \o frag])
         /\ UNCHANGED stateVars
    ELSE /\ SetTask(t, [tasks[t] EXCEPT !.full_text = @ \o frag])
         /\ streaming_response' = frag
         /\ UNCHANGED <<visible, messages, input_buffer, attach_screenshot,
                        is_loading, error, request_generation>>

\* api.rs: the critical section of one non-empty text fragment: the
\* generation check, then push_str
ChunkWrite(t, frag) ==
    IF request_generation # tasks[t].gen
    THEN /\ SetTask(t, [tasks[t] EXCEPT
                !.pc = "cancelled", !.full_text = @ \o frag])
         /\ UNCHANGED stateVars
    ELSE /\ SetTask(t, [tasks[t] EXCEPT !.full_text = @ \o frag])
         /\ streaming_response' = streaming_response \o frag
         /\ UNCHANGED <<visible, messages, input_buffer, attach_screenshot,
                        is_loading, error, request_generation>>

\* api.rs: one data line of the stream that carries text
TaskChunk(t) ==
    /\ t \in DOMAIN tasks
    /\ tasks[t].pc = "stream"
    /\ Len(tasks[t].full_text) < MaxChunks
    /\ ChunkWrite(t, Fragment(Len(tasks[t].full_text) + 1))
    /\ UNCHANGED <<captureVars, api_key_empty, f9_was_pressed, frameVars,
                   sideVars>>

\* api.rs: chunk_result is an error
TaskStreamError(t) ==
    /\ t \in DOMAIN tasks
    /\ tasks[t].pc = "stream"
    /\ Return(t, Err("Stream error: e"))

\* api.rs: the stream ended
TaskStreamEnd(t) ==
    /\ t \in DOMAIN tasks
    /\ tasks[t].pc = "stream"
    /\ Return(t, IF tasks[t].full_text = <<>>
                 THEN Err("Empty response from API.")
                 ELSE Ok(tasks[t].full_text))

\* api.rs: return Err("Cancelled") out of the chunk's critical section; the
\* closure then takes the lock again
TaskCancelled(t) ==
    /\ t \in DOMAIN tasks
    /\ tasks[t].pc = "cancelled"
    /\ Return(t, Err("Cancelled"))

Next ==
    \/ \E f9_pressed \in BOOLEAN, typed \in InputTexts \cup {input_buffer},
          enter \in BOOLEAN, pressed \in BOOLEAN :
          Render(f9_pressed, typed, enter, pressed)
    \/ CancelClick
    \/ SendClick
    \/ SendClone
    \/ \E shot \in {None, Some("png")} : Capture(shot)
    \/ Spawn
    \/ ClearClick
    \/ \E toggled \in BOOLEAN : FrameWriteBack(toggled)
    \/ \E t \in TaskIds : TaskNoKey(t)
    \/ \E t \in TaskIds, kind \in TransportKinds : TaskTransportError(t, kind)
    \/ \E t \in TaskIds, code \in Statuses : TaskStatus(t, code)
    \/ \E t \in TaskIds : TaskChunk(t)
    \/ \E t \in TaskIds : TaskStreamError(t)
    \/ \E t \in TaskIds : TaskStreamEnd(t)
    \/ \E t \in TaskIds : TaskCancelled(t)

Spec == Init /\ [][Next]_vars

(***************************************************************************)
(* History trimming on long conversations.  The conversation grows the way *)
(* the chat above grows it: Send pushes a user turn and hands a clone to   *)
(* send_message, a committed reply pushes an assistant turn after a user   *)
(* turn, and a send that failed or was cancelled with nothing streamed     *)
(* leaves its user turn last.  A message's content is its position, so     *)
(* that a slice of the conversation identifies the messages it holds.      *)
(***************************************************************************)
chatVars == <<stateVars, captureVars, api_key_empty, f9_was_pressed,
              frameVars, tasks, keyVars, filter, bootVars, activeVars,
              loaderVars, toolVars>>

MaxConversation == MAX_HISTORY_MESSAGES + TrimSlack

\* user turns that follow a user turn
Retries(msgs) ==
    Cardinality({i \in 1..(Len(msgs) - 1) :
                    msgs[i].role = User /\ msgs[i + 1].role = User})

InitTrim ==
    /\ StateInit
    /\ RenderInit
    /\ api_key_empty = FALSE
    /\ tasks = <<>>
    /\ TrimIdle
    /\ InputIdle
    /\ BootParked
    /\ LoaderIdle
    /\ ToolIdle

\* ui.rs: Send pushes the user turn and clones the history for the task
TrimSend ==
    /\ Len(conv) < MaxConversation
    /\ conv # <<>> /\ conv[Len(conv)].role = User => Retries(conv) < MaxRetries
    /\ conv' = Append(conv, ChatMessage(User, Len(conv) + 1))
    /\ given' = conv'
    /\ sent' = None
    /\ UNCHANGED chatVars

\* api.rs: send_message trims the history it was given
TrimRequest ==
    /\ given # <<>>
    /\ sent = None
    /\ sent' = Some(TrimHistory(given))
    /\ UNCHANGED <<conv, given, chatVars>>

\* ui.rs: the reply (or the partial text of a failed or cancelled request)
\* is committed after the user turn
TrimReply ==
    /\ Len(conv) < MaxConversation
    /\ conv # <<>> /\ conv[Len(conv)].role = User
    /\ conv' = Append(conv, ChatMessage(Assistant, Len(conv) + 1))
    /\ UNCHANGED <<given, sent, chatVars>>

NextTrim == TrimSend \/ TrimRequest \/ TrimReply

SpecTrim == InitTrim /\ [][NextTrim]_vars

(***************************************************************************)
(* The keyboard and the input filter.  A frame samples the function keys   *)
(* that are down; the host asks message_filter what to do with each input  *)
(* event, on its window thread, at any point between two critical sections *)
(* of the render thread.  The hotkey named in the configuration is drawn   *)
(* from the names parse_vk_code knows.                                     *)
(***************************************************************************)
InitInput ==
    /\ StateInit
    /\ RenderInit
    /\ api_key_empty = FALSE
    /\ tasks = <<>>
    /\ TrimIdle
    /\ hotkey \in HotkeyNames
    /\ keys_down = {}
    /\ frames_held = 0
    /\ filter = "none"
    /\ BootParked
    /\ LoaderIdle
    /\ ToolIdle

\* lib.rs render(): a frame in which the keys of the set keys are down and
\* nothing is typed or clicked in the panel
KeyFrame(keys) ==
    /\ keys \in KeySets
    /\ GetAsyncKeyState(VK_F9, keys) => frames_held < MaxHeld
    /\ RenderBegin(GetAsyncKeyState(VK_F9, keys), input_buffer, FALSE, FALSE)
    /\ keys_down' = keys
    /\ frames_held' = IF GetAsyncKeyState(VK_F9, keys)
                      THEN frames_held + 1 ELSE 0
    /\ UNCHANGED hotkey

\* Mutant of message_filter: the host is told to swallow all input always.
message_filter_Always ==
    /\ filter = "none"
    /\ filter' = "InputAll"
    /\ UNCHANGED <<stateVars, captureVars, api_key_empty, f9_was_pressed,
                   frameVars, tasks, trimVars, keyVars, bootVars, activeVars,
                   loaderVars, toolVars>>

\* lib.rs: message_filter, called by the host for an input event
message_filter ==
    /\ filter = "none"
    /\ filter' = IF visible THEN "InputAll" ELSE "empty"
    /\ UNCHANGED <<stateVars, captureVars, api_key_empty, f9_was_pressed,
                   frameVars, tasks, trimVars, keyVars, bootVars, activeVars,
                   loaderVars, toolVars>>

\* The host has acted on the answer of message_filter: the event was
\* swallowed or passed to the game.
HostDispatch ==
    /\ filter # "none"
    /\ filter' = "none"
    /\ UNCHANGED <<stateVars, captureVars, api_key_empty, f9_was_pressed,
                   frameVars, tasks, trimVars, keyVars, bootVars, activeVars,
                   loaderVars, toolVars>>

NextInput ==
    \/ \E keys \in KeySets : KeyFrame(keys)
    \/ \E toggled \in BOOLEAN : FrameWriteBack(toggled)
    \/ message_filter
    \/ HostDispatch

SpecInput == InitInput /\ [][NextInput]_vars

(***************************************************************************)
(* The bootstrap: DllMain on the loader thread and the worker it spawns.   *)
(* The host loads its modules at any time; once the hooks are applied it   *)
(* calls render() every frame.  A sleep of the worker takes no step of its *)
(* own: the polls are counted.                                             *)
(***************************************************************************)
chatOnly == <<stateVars, captureVars, api_key_empty, f9_was_pressed,
              frameVars, tasks, trimVars, keyVars, filter, loaderVars, toolVars>>

InitBoot ==
    /\ StateInit
    /\ RenderInit
    /\ api_key_empty = FALSE
    /\ tasks = <<>>
    /\ TrimIdle
    /\ InputIdle
    /\ LoaderIdle
    /\ ToolIdle
    /\ bpc = "unattached"
    /\ dll_hinstance = None
    /\ modules = {}
    /\ graphics_api \in {None} \cup {Some(a) : a \in GraphicsApi}
    /\ probes = 0
    /\ api = None
    /\ game_name = None
    /\ session_log = FALSE
    /\ hooks = "none"
    /\ polls = 0
    /\ warned = FALSE
    /\ phases = <<>>
    /\ eject_reason = "none"
    /\ RENDER_ACTIVE = FALSE
    /\ logged_first_render = FALSE

\* The host loads a module.
HostLoadsModule(m) ==
    /\ m \in Modules \ modules
    /\ modules' = modules \cup {m}
    /\ UNCHANGED <<bpc, dll_hinstance, graphics_api, probes, api, game_name,
                   session_log, hooks, polls, warned, phases, eject_reason>>
    /\ UNCHANGED <<chatOnly, activeVars>>

\* lib.rs: eject() and return, for the reason logged before it
Eject(reason) ==
    /\ bpc' = "ejected"
    /\ eject_reason' = reason

\* lib.rs DllMain: DLL_HINSTANCE.set(hmodule) on DLL_PROCESS_ATTACH
DllMainStore ==
    /\ bpc = "unattached"
    /\ dll_hinstance' = Some("hmodule")
    /\ bpc' = "spawn"
    /\ phases' = Append(phases, "handle")
    /\ UNCHANGED <<modules, graphics_api, probes, api, game_name, session_log,
                   hooks, polls, warned, eject_reason>>
    /\ UNCHANGED <<chatOnly, activeVars>>

\* lib.rs DllMain: std::thread::spawn of the worker
DllMainSpawn ==
    /\ bpc = "spawn"
    /\ bpc' = "tracing"
    /\ phases' = Append(phases, "worker")
    /\ UNCHANGED <<dll_hinstance, modules, graphics_api, probes, api,
                   game_name, session_log, hooks, polls, warned, eject_reason>>
    /\ UNCHANGED <<chatOnly, activeVars>>

\* lib.rs worker: init_tracing() and "DllMain: thread started"
BootTracing ==
    /\ bpc = "tracing"
    /\ bpc' = "wait_dxgi"
    /\ phases' = Append(phases, "tracing")
    /\ UNCHANGED <<dll_hinstance, modules, graphics_api, probes, api,
                   game_name, session_log, hooks, polls, warned, eject_reason>>
    /\ UNCHANGED <<chatOnly, activeVars>>

\* lib.rs worker: the poll of is_module_loaded("dxgi.dll") that finds it
BootWaitDxgi ==
    /\ bpc = "wait_dxgi"
    /\ is_module_loaded("dxgi.dll", modules)
    /\ bpc' = "choose"
    /\ phases' = Append(phases, "dxgi")
    /\ UNCHANGED <<dll_hinstance, modules, graphics_api, probes, api,
                   game_name, session_log, hooks, polls, warned, eject_reason>>
    /\ UNCHANGED <<chatOnly, activeVars>>

\* lib.rs worker: the configuration forces a backend
BootChooseForced ==
    /\ bpc = "choose"
    /\ graphics_api # None
    /\ api' = graphics_api
    /\ bpc' = "settle"
    /\ phases' = Append(phases, "backend")
    /\ UNCHANGED <<dll_hinstance, modules, graphics_api, probes, game_name,
                   session_log, hooks, polls, warned, eject_reason>>
    /\ UNCHANGED <<chatOnly, activeVars>>

\* Mutant of BootProbe: the worker gives up one probe early.
BootProbe_OneShort ==
    /\ bpc = "choose"
    /\ graphics_api = None
    /\ probes < ProbeAttempts - 1
    /\ LET detected == detect_graphics_api(modules) IN
       IF detected # None
       THEN /\ api' = detected
            /\ bpc' = "settle"
            /\ phases' = Append(phases, "backend")
            /\ UNCHANGED <<probes, eject_reason>>
       ELSE /\ probes' = probes + 1
            /\ IF probes' = ProbeAttempts - 1
               THEN Eject("no_backend")
               ELSE UNCHANGED <<bpc, eject_reason>>
            /\ UNCHANGED <<api, phases>>
    /\ UNCHANGED <<dll_hinstance, modules, graphics_api, game_name,
                   session_log, hooks, polls, warned>>
    /\ UNCHANGED <<chatOnly, activeVars>>

\* lib.rs worker: one probe of the auto-detection loop; probes counts the
\* probes that found nothing, each followed by a sleep of 100 ms; after 150
\* of them the loop ends with nothing detected and the worker ejects
BootProbe ==
    /\ bpc = "choose"
    /\ graphics_api = None
    /\ probes < ProbeAttempts
    /\ LET detected == detect_graphics_api(modules) IN
       IF detected # None
       THEN /\ api' = detected
            /\ bpc' = "settle"
            /\ phases' = Append(phases, "backend")
            /\ UNCHANGED <<probes, eject_reason>>
       ELSE /\ probes' = probes + 1
            /\ IF probes' = ProbeAttempts
               THEN Eject("no_backend")
               ELSE UNCHANGED <<bpc, eject_reason>>
            /\ UNCHANGED <<api, phases>>
    /\ UNCHANGED <<dll_hinstance, modules, graphics_api, game_name,
                   session_log, hooks, polls, warned>>
    /\ UNCHANGED <<chatOnly, activeVars>>

\* lib.rs worker: sleep(2 s), "Waiting for swapchain creation..."; the
\* counter of the probe loop is out of scope
BootSettle ==
    /\ bpc = "settle"
    /\ bpc' = "detect"
    /\ probes' = 0
    /\ phases' = Append(phases, "settle")
    /\ UNCHANGED <<dll_hinstance, modules, graphics_api, api,
                   game_name, session_log, hooks, polls, warned, eject_reason>>
    /\ UNCHANGED <<chatOnly, activeVars>>

\* Mutant of BootDetectGame: the hooks are built right after the detection.
BootDetectGame_ThenHooks(name) ==
    /\ bpc = "detect"
    /\ name \in {None, Some("Game")}
    /\ game_name' = name
    /\ bpc' = "hooks"
    /\ phases' = Append(phases, "game")
    /\ UNCHANGED <<dll_hinstance, modules, graphics_api, probes, api,
                   session_log, hooks, polls, warned, eject_reason>>
    /\ UNCHANGED <<chatOnly, activeVars>>

\* lib.rs worker: detect_game_name() and the store into STATE.game_name
BootDetectGame(name) ==
    /\ bpc = "detect"
    /\ name \in {None, Some("Game")}
    /\ game_name' = name
    /\ bpc' = "log"
    /\ phases' = Append(phases, "game")
    /\ UNCHANGED <<dll_hinstance, modules, graphics_api, probes, api,
                   session_log, hooks, polls, warned, eject_reason>>
    /\ UNCHANGED <<chatOnly, activeVars>>

\* lib.rs worker: logging::init_session_log(game_name)
BootInitLog ==
    /\ bpc = "log"
    /\ session_log' = TRUE
    /\ bpc' = "hooks"
    /\ phases' = Append(phases, "log")
    /\ UNCHANGED <<dll_hinstance, modules, graphics_api, probes, api,
                   game_name, hooks, polls, warned, eject_reason>>
    /\ UNCHANGED <<chatOnly, activeVars>>

\* Mutant of BootHooks: the hooks are applied for every backend.
BootHooks_AnyBackend(ok) ==
    /\ bpc = "hooks"
    /\ ok \in BOOLEAN
    /\ IF ok
       THEN /\ hooks' = "applied"
            /\ bpc' = "monitor"
            /\ phases' = Append(phases, "hooks")
            /\ UNCHANGED eject_reason
       ELSE /\ hooks' = "failed"
            /\ Eject("apply_failed")
            /\ UNCHANGED phases
    /\ UNCHANGED <<dll_hinstance, modules, graphics_api, probes, api,
                   game_name, session_log, polls, warned>>
    /\ UNCHANGED <<chatOnly, activeVars>>

\* Mutant of BootHooks: a failed apply() is logged and the worker goes on.
BootHooks_FailureGoesOn(ok) ==
    /\ bpc = "hooks"
    /\ ok \in BOOLEAN
    /\ IF api[1] \in {Dx9, Opengl}
       THEN /\ ok
            /\ Eject("unsupported")
            /\ UNCHANGED <<hooks, phases>>
       ELSE /\ hooks' = IF ok THEN "applied" ELSE "failed"
            /\ bpc' = "monitor"
            /\ phases' = IF ok THEN Append(phases, "hooks") ELSE phases
            /\ UNCHANGED eject_reason
    /\ UNCHANGED <<dll_hinstance, modules, graphics_api, probes, api,
                   game_name, session_log, polls, warned>>
    /\ UNCHANGED <<chatOnly, activeVars>>

\* lib.rs worker: "Building {api} hooks...": DX9 and OpenGL eject without an
\* attempt; for DX12 and DX11 hh.apply() returns Ok (ok) or Err, and Err
\* ejects
BootHooks(ok) ==
    /\ bpc = "hooks"
    /\ ok \in BOOLEAN
    /\ IF api[1] \in {Dx9, Opengl}
       THEN /\ ok
            /\ Eject("unsupported")
            /\ UNCHANGED <<hooks, phases>>
       ELSE IF ok
       THEN /\ hooks' = "applied"
            /\ bpc' = "monitor"
            /\ phases' = Append(phases, "hooks")
            /\ UNCHANGED eject_reason
       ELSE /\ hooks' = "failed"
            /\ Eject("apply_failed")
            /\ UNCHANGED phases
    /\ UNCHANGED <<dll_hinstance, modules, graphics_api, probes, api,
                   game_name, session_log, polls, warned>>
    /\ UNCHANGED <<chatOnly, activeVars>>

\* Mutant of BootPoll: the worker ejects when the last poll finds no frame.
BootPoll_EjectOnTimeout ==
    /\ bpc = "monitor"
    /\ polls < MonitorPolls
    /\ polls' = polls + 1
    /\ IF RENDER_ACTIVE
       THEN bpc' = "monitored" /\ UNCHANGED eject_reason
       ELSE IF polls' = MonitorPolls
       THEN Eject("not_active")
       ELSE UNCHANGED <<bpc, eject_reason>>
    /\ UNCHANGED <<dll_hinstance, modules, graphics_api, probes, api,
                   game_name, session_log, hooks, warned, phases>>
    /\ UNCHANGED <<chatOnly, activeVars>>

\* lib.rs worker: one turn of the monitor loop: sleep(1 s), then the load
\* of RENDER_ACTIVE; true ends the loop, and so does the tenth turn
BootPoll ==
    /\ bpc = "monitor"
    /\ polls < MonitorPolls
    /\ polls' = polls + 1
    /\ bpc' = IF RENDER_ACTIVE \/ polls' = MonitorPolls
              THEN "monitored" ELSE bpc
    /\ UNCHANGED <<dll_hinstance, modules, graphics_api, probes, api,
                   game_name, session_log, hooks, warned, phases,
                   eject_reason>>
    /\ UNCHANGED <<chatOnly, activeVars>>

\* lib.rs worker: the load of RENDER_ACTIVE after the loop, which logs the
\* warning when it is false, and loop { park() }
BootPark ==
    /\ bpc = "monitored"
    /\ warned' = ~RENDER_ACTIVE
    /\ bpc' = "parked"
    /\ UNCHANGED <<dll_hinstance, modules, graphics_api, probes, api,
                   game_name, session_log, hooks, polls, phases, eject_reason>>
    /\ UNCHANGED <<chatOnly, activeVars>>

NextBoot ==
    \/ \E m \in Modules : HostLoadsModule(m)
    \/ DllMainStore
    \/ DllMainSpawn
    \/ BootTracing
    \/ BootWaitDxgi
    \/ BootChooseForced
    \/ BootProbe
    \/ BootSettle
    \/ \E name \in {None, Some("Game")} : BootDetectGame(name)
    \/ BootInitLog
    \/ \E ok \in BOOLEAN : BootHooks(ok)
    \/ BootPoll
    \/ BootPark
    \/ \E f9_pressed \in BOOLEAN :
          Render(f9_pressed, input_buffer, FALSE, FALSE)
    \/ \E toggled \in BOOLEAN : FrameWriteBack(toggled)

SpecBoot == InitBoot /\ [][NextBoot]_vars

\* The sleeps of the worker end and the worker is scheduled: a poll or the
\* parking that is due is taken.
SpecBootLive == SpecBoot /\ WF_vars(BootPoll) /\ WF_vars(BootPark)

(***************************************************************************)
(* The injector (injector/src/main.rs).  The machine starts and ends       *)
(* processes at any time and hands a PID out again once its process has    *)
(* ended.  One [[games]] entry is configured; the executable of that name  *)
(* runs in another spelling, next to a process that is no game.            *)
(***************************************************************************)
Pids == 1..MaxPid

\* [[games]] process = "Game.exe"
GameProcess == "Game.exe"

\* The executable names of the processes that run.
ProcNames == {"GAME.EXE", "other.exe"}

\* str::to_lowercase, over the names above
to_lowercase(name) ==
    CASE name = "Game.exe" -> "game.exe"
      [] name = "GAME.EXE" -> "game.exe"
      [] OTHER -> name

\* main.rs: game_map, from the lowercased process name to its entry
game_map == [key \in {to_lowercase(GameProcess)} |-> GameProcess]

\* ProcessInfo { name, pid }
ProcessInfo(name, pid) == [name |-> name, pid |-> pid]

\* main.rs: enumerate_processes(), the processes running at the call
enumerate_processes == {ProcessInfo(os[pid], pid) : pid \in {q \in Pids : os[q] # "none"}}

\* HashMap::remove and HashMap::insert
MapRemove(map, keys) == [k \in DOMAIN map \ keys |-> map[k]]
MapInsert(map, key, value) ==
    [k \in DOMAIN map \cup {key} |-> IF k = key THEN value ELSE map[k]]

\* hudhook Process::by_name(name) finds a running process of that name;
\* which one, when several run, is its choice
ByNameCandidates(name) ==
    {q \in Pids : os[q] # "none" /\ to_lowercase(os[q]) = to_lowercase(name)}

bootAndChat == <<stateVars, captureVars, api_key_empty, f9_was_pressed,
                 frameVars, tasks, trimVars, keyVars, filter, bootVars,
                 activeVars, toolVars>>

InitWatch ==
    /\ StateInit
    /\ RenderInit
    /\ api_key_empty = FALSE
    /\ tasks = <<>>
    /\ TrimIdle
    /\ InputIdle
    /\ BootParked
    /\ ToolIdle
    /\ os = [pid \in Pids |-> "none"]
    /\ loaded = [pid \in Pids |-> 0]
    /\ wpc = "tick"
    /\ injected_pids = {}
    /\ active_injections = <<>>
    /\ procs = {}
    /\ todo = {}
    /\ attempted = {}
    /\ exit_observed = {}
    /\ timeout_secs = 0
    /\ elapsed = 0
    /\ opc = "off"
    /\ lookups = 0
    /\ inject_attempts = 0

\* A process starts, under a PID that is free.
ProcStart(pid, name) ==
    /\ pid \in Pids /\ name \in ProcNames
    /\ os[pid] = "none"
    /\ os' = [os EXCEPT ![pid] = name]
    /\ UNCHANGED <<loaded, watchVars, shotVars, bootAndChat>>

\* A process ends; what was injected into it is gone with it.
ProcExit(pid) ==
    /\ pid \in Pids
    /\ os[pid] # "none"
    /\ os' = [os EXCEPT ![pid] = "none"]
    /\ loaded' = [loaded EXCEPT ![pid] = 0]
    /\ UNCHANGED <<watchVars, shotVars, bootAndChat>>

\* Mutant of WatchEnumFail: the enumeration error is returned to main.
WatchEnumFail_Returns ==
    /\ wpc = "tick"
    /\ wpc' = "returned"
    /\ UNCHANGED <<injected_pids, active_injections, procs, todo, attempted,
                   exit_observed>>
    /\ UNCHANGED <<osVars, shotVars, bootAndChat>>

\* main.rs watch_mode: enumerate_processes() failed: log, sleep 3 s, continue
WatchEnumFail ==
    /\ wpc = "tick"
    /\ wpc' = "tick"
    /\ UNCHANGED <<injected_pids, active_injections, procs, todo, attempted,
                   exit_observed>>
    /\ UNCHANGED <<osVars, shotVars, bootAndChat>>

\* main.rs watch_mode: the names of active_injections whose PID is not in
\* the snapshot
Exited(snapshot) ==
    {name \in DOMAIN active_injections :
        active_injections[name] \notin {pr.pid : pr \in snapshot}}

\* main.rs watch_mode: the top of a tick: the snapshot, current_pids, and
\* "Check for exited games"; remove(..).unwrap() panics on a missing key
WatchTick ==
    /\ wpc = "tick"
    /\ LET snapshot == enumerate_processes
           exited == Exited(snapshot)
       IN  /\ procs' = snapshot
           /\ todo' = snapshot
           /\ IF exited \subseteq DOMAIN active_injections
              THEN /\ active_injections' = MapRemove(active_injections, exited)
                   /\ injected_pids' = injected_pids \
                          {active_injections[name] : name \in exited}
                   /\ exit_observed' = exit_observed \cup exited
                   /\ wpc' = "scan"
              ELSE /\ wpc' = "panicked"
                   /\ UNCHANGED <<active_injections, injected_pids,
                                  exit_observed>>
    /\ attempted' = {}
    /\ UNCHANGED <<osVars, shotVars, bootAndChat>>

\* The entry of the snapshot the scan looks at next.
NextProc == CHOOSE pr \in todo : \A other \in todo : pr.pid <= other.pid

\* Mutant of WatchScan: the PID is recorded whatever the attempt gave.
WatchScan_RecordsAlways(outcome, target) ==
    /\ wpc = "scan"
    /\ todo # {}
    /\ LET proc_info == NextProc
           proc_lower == to_lowercase(proc_info.name)
       IN  /\ todo' = todo \ {proc_info}
           /\ proc_lower \in DOMAIN game_map
           /\ proc_info.pid \notin injected_pids
           /\ attempted' = attempted \cup {proc_info.pid}
           /\ outcome \in {"open_failed", "inject_failed", "injected"}
           /\ outcome = "open_failed" => target = 0
           /\ outcome # "open_failed" =>
                 target \in ByNameCandidates(game_map[proc_lower])
           /\ IF outcome = "injected"
              THEN /\ loaded[target] < MaxLoads
                   /\ loaded' = [loaded EXCEPT ![target] = @ + 1]
              ELSE UNCHANGED loaded
           /\ injected_pids' = injected_pids \cup {proc_info.pid}
           /\ active_injections' =
                  MapInsert(active_injections, proc_lower, proc_info.pid)
    /\ UNCHANGED <<wpc, procs, exit_observed, os>>
    /\ UNCHANGED <<shotVars, bootAndChat>>

\* main.rs watch_mode: one turn of "Check for new games to inject": an
\* entry that is no game or whose PID is tracked is skipped; otherwise
\* Process::by_name(&game.process) fails (outcome "open_failed") or opens
\* the process target, and inject fails or succeeds; success records the PID
\* of the entry
WatchScan(outcome, target) ==
    /\ wpc = "scan"
    /\ todo # {}
    /\ LET proc_info == NextProc
           proc_lower == to_lowercase(proc_info.name)
       IN  /\ todo' = todo \ {proc_info}
           /\ IF proc_lower \notin DOMAIN game_map
                 \/ proc_info.pid \in injected_pids
              THEN /\ outcome = "skipped" /\ target = 0
                   /\ UNCHANGED <<attempted, injected_pids,
                                  active_injections, loaded>>
              ELSE /\ attempted' = attempted \cup {proc_info.pid}
                   /\ outcome \in {"open_failed", "inject_failed", "injected"}
                   /\ outcome = "open_failed" => target = 0
                   /\ outcome # "open_failed" =>
                         target \in ByNameCandidates(game_map[proc_lower])
                   /\ IF outcome = "injected"
                      THEN /\ loaded[target] < MaxLoads
                           /\ loaded' = [loaded EXCEPT ![target] = @ + 1]
                           /\ injected_pids' =
                                  injected_pids \cup {proc_info.pid}
                           /\ active_injections' =
                                  MapInsert(active_injections, proc_lower,
                                            proc_info.pid)
                      ELSE UNCHANGED <<injected_pids, active_injections,
                                       loaded>>
    /\ UNCHANGED <<wpc, procs, exit_observed, os>>
    /\ UNCHANGED <<shotVars, bootAndChat>>

\* main.rs watch_mode: the scan is over: sleep 3 s and loop
WatchSleep ==
    /\ wpc = "scan"
    /\ todo = {}
    /\ wpc' = "tick"
    /\ procs' = {}
    /\ attempted' = {}
    /\ UNCHANGED <<injected_pids, active_injections, todo, exit_observed>>
    /\ UNCHANGED <<osVars, shotVars, bootAndChat>>

NextWatch ==
    \/ \E pid \in Pids, name \in ProcNames : ProcStart(pid, name)
    \/ \E pid \in Pids : ProcExit(pid)
    \/ WatchEnumFail
    \/ WatchTick
    \/ \E outcome \in {"skipped", "open_failed", "inject_failed", "injected"},
          target \in {0} \cup Pids : WatchScan(outcome, target)
    \/ WatchSleep

SpecWatch == InitWatch /\ [][NextWatch]_vars

(***************************************************************************)
(* The loader, one-shot mode: injector.exe --process Game.exe --timeout N.  *)
(***************************************************************************)

\* --timeout values of the runs
Timeouts == 0..MaxTimeout

\* main.rs main: --process is given, the DLL path resolved, and
\* inject_one_shot has taken start = Instant::now()
InitOneShot ==
    /\ StateInit
    /\ RenderInit
    /\ api_key_empty = FALSE
    /\ tasks = <<>>
    /\ TrimIdle
    /\ InputIdle
    /\ BootParked
    /\ ToolIdle
    /\ os = [pid \in Pids |-> "none"]
    /\ loaded = [pid \in Pids |-> 0]
    /\ wpc = "off"
    /\ injected_pids = {}
    /\ active_injections = <<>>
    /\ procs = {}
    /\ todo = {}
    /\ attempted = {}
    /\ exit_observed = {}
    /\ timeout_secs \in Timeouts
    /\ elapsed = 0
    /\ opc = "lookup"
    /\ lookups = 0
    /\ inject_attempts = 0

\* Mutant of OneShotNotFound: the test is start.elapsed() > timeout alone.
OneShotNotFound_NoZeroTest(slept) ==
    /\ opc = "lookup"
    /\ lookups' = lookups + 1
    /\ IF elapsed > timeout_secs
       THEN /\ opc' = "exit1"
            /\ slept = 0
            /\ UNCHANGED elapsed
       ELSE /\ slept \in 1..2
            /\ elapsed' = elapsed + slept
            /\ UNCHANGED opc
    /\ UNCHANGED <<timeout_secs, inject_attempts, osVars, watchVars>>
    /\ UNCHANGED bootAndChat

\* main.rs inject_one_shot, the Err arm of the lookup: with --timeout 0 or
\* once the timeout has elapsed the hints are printed and "Process not
\* found" is returned, which main turns into a non-zero exit; otherwise the
\* loader sleeps one second (slept: the whole seconds that went by) and
\* looks again.  by_name can fail whether or not the process runs.
OneShotNotFound(slept) ==
    /\ opc = "lookup"
    /\ lookups' = lookups + 1
    /\ IF timeout_secs = 0 \/ elapsed >= timeout_secs
       THEN /\ opc' = "exit1"
            /\ slept = 0
            /\ UNCHANGED elapsed
       ELSE /\ slept \in 1..2
            /\ elapsed' = elapsed + slept
            /\ UNCHANGED opc
    /\ UNCHANGED <<timeout_secs, inject_attempts, osVars, watchVars>>
    /\ UNCHANGED bootAndChat

\* main.rs inject_one_shot, the Ok arm of the lookup: by_name has opened
\* the process target, the loop is left, and process.inject either fails
\* ("Failed to inject DLL", non-zero exit) or succeeds (Ok(()), exit 0).
OneShotFound(outcome, target) ==
    /\ opc = "lookup"
    /\ target \in ByNameCandidates(GameProcess)
    /\ outcome \in {"inject_failed", "injected"}
    /\ lookups' = lookups + 1
    /\ inject_attempts' = inject_attempts + 1
    /\ IF outcome = "injected"
       THEN /\ loaded' = [loaded EXCEPT ![target] = @ + 1]
            /\ opc' = "exit0"
       ELSE /\ UNCHANGED loaded
            /\ opc' = "exit1"
    /\ UNCHANGED <<timeout_secs, elapsed, os, watchVars>>
    /\ UNCHANGED bootAndChat

\* One step of inject_one_shot.
OneShotStep ==
    \/ \E slept \in 0..2 : OneShotNotFound(slept)
    \/ \E outcome \in {"inject_failed", "injected"}, target \in Pids :
          OneShotFound(outcome, target)

NextOneShot ==
    \/ \E pid \in Pids, name \in ProcNames : ProcStart(pid, name)
    \/ \E pid \in Pids : ProcExit(pid)
    \/ \E slept \in 0..2 : OneShotNotFound(slept)
    \/ \E outcome \in {"inject_failed", "injected"}, target \in Pids :
          OneShotFound(outcome, target)

SpecOneShot == InitOneShot /\ [][NextOneShot]_vars

\* The loader is scheduled: a lookup that can be made is made.
SpecOneShotLive == SpecOneShot /\ WF_vars(OneShotStep)

(***************************************************************************)
(* The identity detector (game_detect.rs).  Text is a sequence of           *)
(* characters.                                                              *)
(***************************************************************************)

LowerChars == <<"a", "b", "c", "d", "e", "f", "g", "h", "i", "j", "k", "l",
                "m", "n", "o", "p", "q", "r", "s", "t", "u", "v", "w", "x",
                "y", "z">>
UpperChars == <<"A", "B", "C", "D", "E", "F", "G", "H", "I", "J", "K", "L",
                "M", "N", "O", "P", "Q", "R", "S", "T", "U", "V", "W", "X",
                "Y", "Z">>

\* char::is_lowercase, char::is_uppercase
is_lowercase(c) == \E i \in 1..26 : LowerChars[i] = c
is_uppercase(c) == \E i \in 1..26 : UpperChars[i] = c

\* char::to_uppercase, char::to_lowercase
char_to_uppercase(c) ==
    IF is_lowercase(c)
    THEN UpperChars[CHOOSE i \in 1..26 : LowerChars[i] = c]
    ELSE c
char_to_lowercase(c) ==
    IF is_uppercase(c)
    THEN LowerChars[CHOOSE i \in 1..26 : UpperChars[i] = c]
    ELSE c

\* str::to_lowercase
str_to_lowercase(s) == [i \in 1..Len(s) |-> char_to_lowercase(s[i])]

\* str::strip_suffix
strip_suffix(s, suffix) ==
    IF /\ Len(s) >= Len(suffix)
       /\ SubSeq(s, Len(s) - Len(suffix) + 1, Len(s)) = suffix
    THEN Some(SubSeq(s, 1, Len(s) - Len(suffix)))
    ELSE None

\* path.rsplit('\\').next(): what follows the last backslash
RECURSIVE LastSegment(_)
LastSegment(path) ==
    IF path = <<>> \/ path[Len(path)] = "\\"
    THEN <<>>
    ELSE Append(LastSegment(SubSeq(path, 1, Len(path) - 1)), path[Len(path)])

\* game_detect.rs current_exe_name: none when GetModuleFileNameW fails
current_exe_name(path) ==
    IF path = None THEN None ELSE Some(LastSegment(path[1]))

\* str::split_whitespace
RECURSIVE split_whitespace(_)
split_whitespace(s) ==
    LET rest == TrimStart(s)
        word == CHOOSE n \in 1..Len(rest) :
                    /\ \A k \in 1..n : rest[k] \notin Whitespace
                    /\ n = Len(rest) \/ rest[n + 1] \in Whitespace
    IN  IF rest = <<>>
        THEN <<>>
        ELSE <<SubSeq(rest, 1, word)>>
                 \o split_whitespace(SubSeq(rest, word + 1, Len(rest)))

\* [String]::join(" ")
RECURSIVE join(_)
join(words) ==
    IF words = <<>> THEN <<>>
    ELSE IF Len(words) = 1 THEN words[1]
    ELSE words[1] \o <<" ">> \o join(Tail(words))

\* name_from_exe, the closure of map(): the first character uppercased, the
\* others as they are
title_word(word) ==
    IF word = <<>> THEN <<>>
    ELSE <<char_to_uppercase(word[1])>> \o Tail(word)

\* Mutant of needs_space: only the character before is looked at.
needs_space_AfterLowerOnly(chars, i) ==
    /\ i > 1
    /\ is_uppercase(chars[i])
    /\ is_lowercase(chars[i - 1])

\* name_from_exe, the test of the loop over chars (i is 1-based here): a space
\* goes in front of an uppercase character that is not the first when the
\* character before is lowercase, or is uppercase and the one after is
\* lowercase
needs_space(chars, i) ==
    /\ i > 1
    /\ is_uppercase(chars[i])
    /\ LET prev == chars[i - 1] IN
       \/ is_lowercase(prev)
       \/ /\ is_uppercase(prev)
          /\ i + 1 <= Len(chars)
          /\ is_lowercase(chars[i + 1])

\* name_from_exe, the loop over chars
RECURSIVE camel_loop(_, _, _)
camel_loop(chars, i, result) ==
    IF i > Len(chars)
    THEN result
    ELSE camel_loop(chars, i + 1,
                    result \o (IF needs_space(chars, i) THEN <<" ">> ELSE <<>>)
                           \o <<chars[i]>>)

\* game_detect.rs name_from_exe
name_from_exe(path) ==
    LET exe == current_exe_name(path) IN
    IF exe = None
    THEN None
    ELSE LET lower == strip_suffix(exe[1], <<".", "e", "x", "e">>)
             upper == strip_suffix(exe[1], <<".", "E", "X", "E">>)
             name == IF lower # None THEN lower[1]
                     ELSE IF upper # None THEN upper[1]
                     ELSE exe[1]
             replaced == [i \in 1..Len(name) |->
                            IF name[i] \in {"-", "_"} THEN " " ELSE name[i]]
             spaced == camel_loop(replaced, 1, <<>>)
             split == split_whitespace(spaced)
             result == join([k \in 1..Len(split) |-> title_word(split[k])])
         IN  IF name = <<>> THEN None
             ELSE IF result = <<>> THEN None
             ELSE Some(result)

\* config.rs GameEntry { name, process }
GameEntry(name, process) == [name |-> name, process |-> process]

\* game_detect.rs name_from_config: the name of the first entry whose process
\* is the host's file name, whatever the case; that name can be missing
RECURSIVE config_loop(_, _)
config_loop(entries, exe_lower) ==
    IF entries = <<>> THEN None
    ELSE IF str_to_lowercase(Head(entries).process) = exe_lower
    THEN Head(entries).name
    ELSE config_loop(Tail(entries), exe_lower)

name_from_config(path, entries) ==
    LET exe == current_exe_name(path) IN
    IF exe = None THEN None
    ELSE config_loop(entries, str_to_lowercase(exe[1]))

\* game_detect.rs is_usable_title: the JUNK list
JUNK == {
    <<"w", "i", "n", "d", "o", "w">>,
    <<"d", "e", "f", "a", "u", "l", "t">>,
    <<"i", "m", "e">>,
    <<"m", "s", "c", "t", "f", "i", "m", "e">>,
    <<"g", "d", "i", "+">>,
    <<"d", "w", "m">>,
    <<"d", "e", "s", "k", "t", "o", "p">>,
    <<"p", "r", "o", "g", "r", "a", "m", " ", "m", "a", "n", "a", "g", "e", "r">>
}

\* game_detect.rs is_usable_title
is_usable_title(title) ==
    IF Len(title) < 2 THEN FALSE
    ELSE str_to_lowercase(title) \notin JUNK

\* A top-level window: whether it belongs to the host process, whether it is
\* visible, and its text (empty: GetWindowTextW returns 0).
Window(own, vis, title) == [own |-> own, visible |-> vis, title |-> title]

\* game_detect.rs enum_window_callback: best_title after this window
enum_window_callback(window, best_title) ==
    IF ~window.own THEN best_title
    ELSE IF ~window.visible THEN best_title
    ELSE IF Len(window.title) = 0 THEN best_title
    ELSE IF Len(window.title) > Len(best_title) THEN window.title
    ELSE best_title

\* EnumWindows: the callback on every window, in order
RECURSIVE EnumWindows(_, _)
EnumWindows(wins, best_title) ==
    IF wins = <<>> THEN best_title
    ELSE EnumWindows(Tail(wins), enum_window_callback(Head(wins), best_title))

\* game_detect.rs name_from_window_title
name_from_window_title(wins) ==
    LET title == Trim(EnumWindows(wins, <<>>)) IN
    IF is_usable_title(title) THEN Some(title) ELSE None

\* game_detect.rs detect_game_name
detect_game_name(path, entries, wins) ==
    IF name_from_config(path, entries) # None
    THEN name_from_config(path, entries)
    ELSE IF name_from_window_title(wins) # None
    THEN name_from_window_title(wins)
    ELSE name_from_exe(path)

\* File names without a directory: every stem of up to MaxStem characters
\* over lowercase, uppercase, digit, '-' and '_', with and without the
\* suffix, and the names of the examples.
StemChars == {"a", "b", "A", "B", "1", "-", "_"}
Stems == UNION {[1..n -> StemChars] : n \in 0..MaxStem}
Suffixes == {<<>>, <<".", "e", "x", "e">>, <<".", "E", "X", "E">>}
ExampleNames == {
    <<"D", "a", "r", "k", "S", "o", "u", "l", "s", "I", "I", "I", ".", "e", "x", "e">>,
    <<"G", "A", "M", "E", ".", "e", "x", "e">>,
    <<"m", "y", "_", "c", "o", "o", "l", "_", "g", "a", "m", "e", ".", "e", "x", "e">>,
    <<"h", "o", "r", "i", "z", "o", "n", "-", "z", "e", "r", "o", "-", "d", "a", "w", "n", ".", "e", "x", "e">>,
    <<"H", "a", "l", "f", "2", "L", "i", "f", "e", ".", "e", "x", "e">>}
FileNames == {stem \o suffix : stem \in Stems, suffix \in Suffixes}
                 \cup ExampleNames

\* The hosts of the runs that have a configuration or windows: the path can
\* be unknown, and the file name comes in either case.
HostPaths == {None,
              Some(<<"C", ":", "\\", "G", "a", "m", "e", ".", "e", "x", "e">>),
              Some(<<"C", ":", "\\", "G", "\\", "G", "A", "M", "E", ".", "E", "X", "E">>)}

\* CONFIG.games of those runs: no entry; an entry for the host with a name,
\* without one, and with an empty one; an entry for another program.
GameLists == {
    <<>>,
    <<GameEntry(Some(<<"D", "o", "o", "m">>), <<"g", "a", "m", "e", ".", "e", "x", "e">>)>>,
    <<GameEntry(None, <<"g", "a", "m", "e", ".", "e", "x", "e">>)>>,
    <<GameEntry(Some(<<>>), <<"g", "a", "m", "e", ".", "e", "x", "e">>)>>,
    <<GameEntry(Some(<<"D", "o", "o", "m">>), <<"o", "t", "h", "e", "r", ".", "e", "x", "e">>)>>}

\* The windows of those runs, up to MaxWindows of them.
WindowKinds == {
    Window(TRUE, TRUE, <<"D", "o", "o", "m">>),
    Window(TRUE, TRUE, <<"D", "e", "f", "a", "u", "l", "t">>),
    Window(TRUE, TRUE, <<"D">>),
    Window(TRUE, TRUE, <<>>),
    Window(TRUE, FALSE, <<"L", "a", "u", "n", "c", "h", "e", "r">>),
    Window(FALSE, TRUE, <<"E", "x", "p", "l", "o", "r", "e", "r">>)}
WindowLists == UNION {[1..n -> WindowKinds] : n \in 0..MaxWindows}

\* lib.rs DllMain calls detect_game_name once, after the settle.
InitDetect ==
    /\ LockIdle
    /\ StreamIdle
    /\ LogEmpty
    /\ StateInit
    /\ RenderInit
    /\ api_key_empty = FALSE
    /\ tasks = <<>>
    /\ TrimIdle
    /\ InputIdle
    /\ BootParked
    /\ LoaderIdle
    /\ \/ /\ exe_path \in {Some(name) : name \in FileNames}
          /\ games = <<>>
          /\ windows = <<>>
       \/ /\ exe_path \in HostPaths
          /\ games \in GameLists
          /\ windows \in WindowLists
    /\ dpc = "start"
    /\ detect_result = None
    /\ gpc = "off"
    /\ hwnd = 0
    /\ rect = [left |-> 0, top |-> 0, right |-> 0, bottom |-> 0]
    /\ hdc_screen = 0
    /\ hdc_mem = 0
    /\ hbitmap = 0
    /\ old_object = 0
    /\ acquired = [k \in HandleKinds |-> 0]
    /\ released = [k \in HandleKinds |-> 0]
    /\ gdi_result = None

everythingButDetect == <<stateVars, captureVars, api_key_empty, f9_was_pressed,
                         frameVars, tasks, trimVars, keyVars, filter, bootVars,
                         activeVars, loaderVars, gdiVars, logVars, sseVars, lockVars>>

\* lib.rs: let game_name = game_detect::detect_game_name();
DetectGameName ==
    /\ dpc = "start"
    /\ detect_result' = detect_game_name(exe_path, games, windows)
    /\ dpc' = "done"
    /\ UNCHANGED <<exe_path, games, windows>>
    /\ UNCHANGED everythingButDetect

NextDetect == DetectGameName

SpecDetect == InitDetect /\ [][NextDetect]_vars

(***************************************************************************)
(* The screenshot path (capture.rs capture_gdi) and its native handles.     *)
(***************************************************************************)

\* Window rectangles GetWindowRect can report, in screen coordinates.
Coords == 0..MaxCoord
Rects == [left : Coords, top : Coords, right : Coords, bottom : Coords]
ZeroRect == [left |-> 0, top |-> 0, right |-> 0, bottom |-> 0]

\* The handle values the calls return when they succeed; 0 is the null or
\* invalid handle.
ScreenDC == 1
MemDC == 2
Bitmap == 3
StockBitmap == 4

\* k kinds of handle were acquired, or released, once more
Acquire(kinds) ==
    acquired' = [k \in HandleKinds |->
                    IF k \in kinds THEN acquired[k] + 1 ELSE acquired[k]]
Release(kinds) ==
    released' = [k \in HandleKinds |->
                    IF k \in kinds THEN released[k] + 1 ELSE released[k]]

\* return None / return Some(..)
GdiReturn(result) ==
    /\ gdi_result' = result
    /\ gpc' = "returned"

everythingButGdi == <<stateVars, captureVars, api_key_empty, f9_was_pressed,
                      frameVars, tasks, trimVars, keyVars, filter, bootVars,
                      activeVars, loaderVars, detectVars, logVars, sseVars, lockVars>>

\* ui.rs calls capture_screenshot for a send with Attach Screenshot.
InitGdi ==
    /\ LockIdle
    /\ StreamIdle
    /\ LogEmpty
    /\ StateInit
    /\ RenderInit
    /\ api_key_empty = FALSE
    /\ tasks = <<>>
    /\ TrimIdle
    /\ InputIdle
    /\ BootParked
    /\ LoaderIdle
    /\ exe_path = None
    /\ games = <<>>
    /\ windows = <<>>
    /\ dpc = "off"
    /\ detect_result = None
    /\ gpc = "entry"
    /\ hwnd = 0
    /\ rect = ZeroRect
    /\ hdc_screen = 0
    /\ hdc_mem = 0
    /\ hbitmap = 0
    /\ old_object = 0
    /\ acquired = [k \in HandleKinds |-> 0]
    /\ released = [k \in HandleKinds |-> 0]
    /\ gdi_result = None

\* capture_gdi up to the dimension test: GetForegroundWindow returns window
\* (0: none), GetWindowRect succeeds (ok) and fills in r, or fails and
\* leaves the zeroed rect
GdiEntry(window, ok, r) ==
    /\ gpc = "entry"
    /\ window \in {0, 1}
    /\ r \in Rects
    /\ hwnd' = window
    /\ IF window = 0
       THEN /\ ok /\ r = ZeroRect
            /\ UNCHANGED rect
            /\ GdiReturn(None)
       ELSE IF ~ok
       THEN /\ r = ZeroRect
            /\ UNCHANGED rect
            /\ GdiReturn(None)
       ELSE /\ rect' = r
            /\ IF r.right - r.left <= 0 \/ r.bottom - r.top <= 0
               THEN GdiReturn(None)
               ELSE /\ gpc' = "getdc"
                    /\ UNCHANGED gdi_result
    /\ UNCHANGED <<hdc_screen, hdc_mem, hbitmap, old_object, acquired,
                   released>>
    /\ UNCHANGED everythingButGdi

\* capture_gdi: GetDC(HWND(0)) and the is_invalid test
GdiGetDC(handle) ==
    /\ gpc = "getdc"
    /\ handle \in {0, ScreenDC}
    /\ hdc_screen' = handle
    /\ IF handle = 0
       THEN /\ GdiReturn(None)
            /\ UNCHANGED acquired
       ELSE /\ Acquire({"screen_dc"})
            /\ gpc' = "createdc"
            /\ UNCHANGED gdi_result
    /\ UNCHANGED <<hwnd, rect, hdc_mem, hbitmap, old_object, released>>
    /\ UNCHANGED everythingButGdi

\* capture_gdi: CreateCompatibleDC and its failure exit
GdiCreateCompatibleDC(handle) ==
    /\ gpc = "createdc"
    /\ handle \in {0, MemDC}
    /\ hdc_mem' = handle
    /\ IF handle = 0
       THEN /\ Release({"screen_dc"})
            /\ GdiReturn(None)
            /\ UNCHANGED acquired
       ELSE /\ Acquire({"mem_dc"})
            /\ gpc' = "createbitmap"
            /\ UNCHANGED <<released, gdi_result>>
    /\ UNCHANGED <<hwnd, rect, hdc_screen, hbitmap, old_object>>
    /\ UNCHANGED everythingButGdi

\* Mutant of GdiCreateCompatibleBitmap: the failure exit forgets DeleteDC.
GdiCreateCompatibleBitmap_LeaksDC(handle) ==
    /\ gpc = "createbitmap"
    /\ handle \in {0, Bitmap}
    /\ hbitmap' = handle
    /\ IF handle = 0
       THEN /\ Release({"screen_dc"})
            /\ GdiReturn(None)
            /\ UNCHANGED acquired
       ELSE /\ Acquire({"bitmap"})
            /\ gpc' = "select"
            /\ UNCHANGED <<released, gdi_result>>
    /\ UNCHANGED <<hwnd, rect, hdc_screen, hdc_mem, old_object>>
    /\ UNCHANGED everythingButGdi

\* capture_gdi: CreateCompatibleBitmap and its failure exit
GdiCreateCompatibleBitmap(handle) ==
    /\ gpc = "createbitmap"
    /\ handle \in {0, Bitmap}
    /\ hbitmap' = handle
    /\ IF handle = 0
       THEN /\ Release({"mem_dc", "screen_dc"})
            /\ GdiReturn(None)
            /\ UNCHANGED acquired
       ELSE /\ Acquire({"bitmap"})
            /\ gpc' = "select"
            /\ UNCHANGED <<released, gdi_result>>
    /\ UNCHANGED <<hwnd, rect, hdc_screen, hdc_mem, old_object>>
    /\ UNCHANGED everythingButGdi

\* capture_gdi: SelectObject(hdc_mem, hbitmap); the bitmap that was selected
\* before is kept in old_object.  The code does not test what SelectObject
\* returns: the selection of a bitmap just created into a DC just created is
\* taken to succeed.
GdiSelectObject ==
    /\ gpc = "select"
    /\ old_object' = StockBitmap
    /\ Acquire({"selection"})
    /\ gpc' = "bitblt"
    /\ UNCHANGED <<hwnd, rect, hdc_screen, hdc_mem, hbitmap, released,
                   gdi_result>>
    /\ UNCHANGED everythingButGdi

\* capture_gdi: BitBlt and its failure exit
GdiBitBlt(ok) ==
    /\ gpc = "bitblt"
    /\ IF ok
       THEN /\ gpc' = "getdibits"
            /\ UNCHANGED <<released, gdi_result>>
       ELSE /\ Release({"selection", "mem_dc", "screen_dc", "bitmap"})
            /\ GdiReturn(None)
    /\ UNCHANGED <<hwnd, rect, hdc_screen, hdc_mem, hbitmap, old_object,
                   acquired>>
    /\ UNCHANGED everythingButGdi

\* capture_gdi: GetDIBits, the cleanup that follows it in every case, and
\* the test of the lines read
GdiGetDIBits(lines) ==
    /\ gpc = "getdibits"
    /\ lines \in {0, rect.bottom - rect.top}
    /\ Release({"selection", "mem_dc", "screen_dc", "bitmap"})
    /\ IF lines = 0
       THEN GdiReturn(None)
       ELSE /\ gpc' = "encode"
            /\ UNCHANGED gdi_result
    /\ UNCHANGED <<hwnd, rect, hdc_screen, hdc_mem, hbitmap, old_object,
                   acquired>>
    /\ UNCHANGED everythingButGdi

\* capture_gdi: RgbaImage::from_raw, the downscale, the PNG and base64
\* encoding
GdiEncode(raw_ok, png_ok) ==
    /\ gpc = "encode"
    /\ raw_ok \/ png_ok
    /\ GdiReturn(IF raw_ok /\ png_ok THEN Some("png") ELSE None)
    /\ UNCHANGED <<hwnd, rect, hdc_screen, hdc_mem, hbitmap, old_object,
                   acquired, released>>
    /\ UNCHANGED everythingButGdi

\* The next send with Attach Screenshot calls capture_screenshot again; the
\* locals of the call before are gone.
GdiCallAgain ==
    /\ gpc = "returned"
    /\ gpc' = "entry"
    /\ hwnd' = 0
    /\ rect' = ZeroRect
    /\ hdc_screen' = 0
    /\ hdc_mem' = 0
    /\ hbitmap' = 0
    /\ old_object' = 0
    /\ acquired' = [k \in HandleKinds |-> 0]
    /\ released' = [k \in HandleKinds |-> 0]
    /\ gdi_result' = None
    /\ UNCHANGED everythingButGdi

NextGdi ==
    \/ \E window \in {0, 1}, ok \in BOOLEAN, r \in Rects :
          GdiEntry(window, ok, r)
    \/ \E handle \in {0, ScreenDC} : GdiGetDC(handle)
    \/ \E handle \in {0, MemDC} : GdiCreateCompatibleDC(handle)
    \/ \E handle \in {0, Bitmap} : GdiCreateCompatibleBitmap(handle)
    \/ GdiSelectObject
    \/ \E ok \in BOOLEAN : GdiBitBlt(ok)
    \/ \E lines \in 0..MaxCoord : GdiGetDIBits(lines)
    \/ \E raw_ok \in BOOLEAN, png_ok \in BOOLEAN : GdiEncode(raw_ok, png_ok)
    \/ GdiCallAgain

SpecGdi == InitGdi /\ [][NextGdi]_vars

(***************************************************************************)
(* api.rs send_message: the stream loop, byte by byte.  A body is the bytes *)
(* of its lines; the transport delivers it in chunks of any size.  The     *)
(* character E stands for a character of two bytes, E1 E2, and ? for       *)
(* U+FFFD.  A JSON document {t} stands for a GeminiResponse whose parts     *)
(* carry the text t.                                                       *)
(***************************************************************************)
\* lines of one response body
MaxLines == 3

\* the literal of line.strip_prefix("data: ")
DataPrefix == <<"d", "a", "t", "a", ":", " ">>

\* String::from_utf8_lossy: a lead byte followed by its continuation byte
\* is the character; a lead byte without it, or a continuation byte on its
\* own, is U+FFFD
RECURSIVE from_utf8_lossy(_)
from_utf8_lossy(bytes) ==
    IF bytes = <<>> THEN <<>>
    ELSE IF bytes[1] = "E1"
    THEN IF Len(bytes) >= 2 /\ bytes[2] = "E2"
         THEN <<"E">> \o from_utf8_lossy(Tail(Tail(bytes)))
         ELSE <<"?">> \o from_utf8_lossy(Tail(bytes))
    ELSE IF bytes[1] = "E2"
    THEN <<"?">> \o from_utf8_lossy(Tail(bytes))
    ELSE <<bytes[1]>> \o from_utf8_lossy(Tail(bytes))

\* str::find('\n'): the 1-based index of the first newline, 0 for None
find_newline(s) ==
    IF \E i \in 1..Len(s) : s[i] = "\n"
    THEN CHOOSE i \in 1..Len(s) :
             s[i] = "\n" /\ \A j \in 1..(i - 1) : s[j] # "\n"
    ELSE 0

\* str::strip_prefix
strip_prefix(s, prefix) ==
    IF Len(s) >= Len(prefix) /\ SubSeq(s, 1, Len(prefix)) = prefix
    THEN Some(SubSeq(s, Len(prefix) + 1, Len(s)))
    ELSE None

\* serde_json::from_str::<GeminiResponse> followed by the join of the parts'
\* texts: none for a document that does not parse
chunk_text_of(json_str) ==
    IF /\ Len(json_str) >= 2
       /\ json_str[1] = "{"
       /\ json_str[Len(json_str)] = "}"
       /\ \A i \in 2..(Len(json_str) - 1) : json_str[i] \notin {"{", "}"}
    THEN Some(SubSeq(json_str, 2, Len(json_str) - 1))
    ELSE None

\* The locals of the loop and the accumulator behind the lock.
Reader(buf, text, frags, shown) ==
    [buffer |-> buf, full_text |-> text, fragments |-> frags,
     streaming_response |-> shown]

\* Mutant of process_line: a line that does not parse empties full_text.
process_line_ResetsOnMalformed(r, line) ==
    IF line = <<>> THEN r
    ELSE LET json_str == strip_prefix(line, DataPrefix) IN
         IF json_str = None THEN r
         ELSE LET chunk_text == chunk_text_of(json_str[1]) IN
              IF chunk_text = None
              THEN [r EXCEPT !.full_text = <<>>]
              ELSE IF chunk_text[1] = <<>> THEN r
              ELSE [r EXCEPT !.full_text = @ \o chunk_text[1],
                             !.fragments = Append(@, chunk_text[1]),
                             !.streaming_response = @ \o chunk_text[1]]

\* api.rs: the body of the inner loop for one trimmed line: an empty line,
\* a line without the prefix, a document that does not parse and an empty
\* chunk_text change nothing; otherwise the text is pushed to full_text and,
\* the generation being current, to STATE.streaming_response
process_line(r, line) ==
    IF line = <<>> THEN r
    ELSE LET json_str == strip_prefix(line, DataPrefix) IN
         IF json_str = None THEN r
         ELSE LET chunk_text == chunk_text_of(json_str[1]) IN
              IF chunk_text = None \/ chunk_text[1] = <<>> THEN r
              ELSE [r EXCEPT !.full_text = @ \o chunk_text[1],
                             !.fragments = Append(@, chunk_text[1]),
                             !.streaming_response = @ \o chunk_text[1]]

\* api.rs: "Process complete lines": while the buffer holds a newline, cut
\* the line before it off the buffer, trim it and process it
RECURSIVE process_complete_lines(_)
process_complete_lines(r) ==
    LET newline_pos == find_newline(r.buffer) IN
    IF newline_pos = 0 THEN r
    ELSE LET line == Trim(SubSeq(r.buffer, 1, newline_pos - 1))
             rest == SubSeq(r.buffer, newline_pos + 1, Len(r.buffer))
         IN  process_complete_lines(
                 process_line([r EXCEPT !.buffer = rest], line))

\* The lines a body is made of, as bytes: a line with a text, padded with a
\* blank and a carriage return; a second line with a text; a line whose text
\* has the two-byte character; a line with no text part; a document that
\* does not parse; a document without the prefix; and a line of a carriage
\* return alone.
LineKinds ==
    { <<" ">> \o DataPrefix \o <<"{", "x", "}", "\r">>,
      DataPrefix \o <<"{", "y", "}">>,
      DataPrefix \o <<"{", "E1", "E2", "}">>,
      DataPrefix \o <<"{", "}">>,
      DataPrefix \o <<"{", "x">>,
      <<"{", "x", "}">>,
      <<"\r">> }

\* What can follow the last newline of a body: nothing, or a line with a
\* text that the remote did not terminate.
Tails == { <<>>, DataPrefix \o <<"{", "y", "}">> }

RECURSIVE Flatten(_)
Flatten(lines) ==
    IF lines = <<>> THEN <<>>
    ELSE Head(lines) \o <<"\n">> \o Flatten(Tail(lines))

\* The response bodies: one to MaxLines newline-terminated lines and a tail.
Bodies ==
    UNION {{Flatten(lines) \o tail :
               lines \in [1..n -> LineKinds], tail \in Tails} : n \in 1..MaxLines}

streamVars == <<visible, messages, input_buffer, attach_screenshot,
                is_loading, error, request_generation>>
everythingButStream == <<captureVars, api_key_empty, f9_was_pressed,
                         frameVars, tasks, trimVars, keyVars, filter, bootVars,
                         activeVars, loaderVars, detectVars, gdiVars, logVars,
                         lockVars>>

\* detect_game_name and capture_gdi are not running.
FunctionsIdle ==
    /\ exe_path = <<>>
    /\ games = <<>>
    /\ windows = <<>>
    /\ dpc = "off"
    /\ detect_result = <<>>
    /\ gpc = "off"
    /\ hwnd = 0
    /\ rect = [left |-> 0, top |-> 0, right |-> 0, bottom |-> 0]
    /\ hdc_screen = 0
    /\ hdc_mem = 0
    /\ hbitmap = 0
    /\ old_object = 0
    /\ acquired = [k \in HandleKinds |-> 0]
    /\ released = [k \in HandleKinds |-> 0]
    /\ gdi_result = <<>>

\* The request of generation 1 is in flight, the remote has answered 200
\* and send_message enters the stream loop; no Cancel or Clear Chat is
\* clicked while it reads, so its generation stays the current one.
InitStream ==
    /\ visible = TRUE
    /\ messages = <<ChatMessage(User, <<"q">>)>>
    /\ input_buffer = <<>>
    /\ attach_screenshot = FALSE
    /\ is_loading = TRUE
    /\ error = None
    /\ request_generation = 1
    /\ streaming_response = <<>>
    /\ capture_pending = FALSE
    /\ capture_wait_frames = 0
    /\ captured_screenshot = None
    /\ send_pending_capture = FALSE
    /\ RenderInit
    /\ api_key_empty = FALSE
    /\ tasks = <<>>
    /\ TrimIdle
    /\ InputIdle
    /\ BootParked
    /\ LoaderIdle
    /\ LogEmpty
    /\ LockIdle
    /\ FunctionsIdle
    /\ sse_body \in Bodies
    /\ sse_rest = sse_body
    /\ buffer = <<>>
    /\ full_text = <<>>
    /\ fragments = <<>>
    /\ decoded = <<>>
    /\ spc = "read"
    /\ stream_result = None

\* api.rs: stream.next() yields a chunk of n bytes: it is decoded, pushed to
\* the buffer, and the complete lines are processed
StreamChunk(n) ==
    /\ spc = "read"
    /\ n \in 1..Len(sse_rest)
    /\ LET chunk == SubSeq(sse_rest, 1, n)
           decoded_chunk == from_utf8_lossy(chunk)
           r == process_complete_lines(
                    Reader(buffer \o decoded_chunk, full_text, fragments,
                           streaming_response))
       IN  /\ sse_rest' = SubSeq(sse_rest, n + 1, Len(sse_rest))
           /\ decoded' = decoded \o decoded_chunk
           /\ buffer' = r.buffer
           /\ full_text' = r.full_text
           /\ fragments' = r.fragments
           /\ streaming_response' = r.streaming_response
    /\ UNCHANGED <<sse_body, spc, stream_result>>
    /\ UNCHANGED <<streamVars, everythingButStream>>

\* api.rs: stream.next() yields an error
StreamFail ==
    /\ spc = "read"
    /\ spc' = "done"
    /\ stream_result' = Some(Err("Stream error: e"))
    /\ UNCHANGED <<sse_body, sse_rest, buffer, full_text, fragments, decoded,
                   streaming_response>>
    /\ UNCHANGED <<streamVars, everythingButStream>>

\* api.rs: the stream is over: Err for an empty full_text, Ok(full_text)
\* otherwise
StreamOver ==
    /\ spc = "read"
    /\ sse_rest = <<>>
    /\ spc' = "done"
    /\ stream_result' = Some(IF full_text = <<>>
                             THEN Err("Empty response from API.")
                             ELSE Ok(full_text))
    /\ UNCHANGED <<sse_body, sse_rest, buffer, full_text, fragments, decoded,
                   streaming_response>>
    /\ UNCHANGED <<streamVars, everythingButStream>>

NextStream ==
    \/ \E n \in 1..Len(sse_body) : StreamChunk(n)
    \/ StreamFail
    \/ StreamOver

SpecStream == InitStream /\ [][NextStream]_vars

(***************************************************************************)
(* The STATE mutex (state.rs), a parking_lot Mutex: not reentrant.  The    *)
(* code of each thread is the list of its lock(), guard drops, awaits and  *)
(* branches, each named after the file and line it stands at.              *)
(***************************************************************************)
\* One line of a thread: at the position at, the operation op, then to.
Line(at, op, to) == [at |-> at, op |-> op, to |-> to]

\* lib.rs render(): the hotkey's guard lives to the end of the if block,
\* the guard of `STATE.lock().visible` to the end of its statement
RenderCode ==
    { Line("idle", "run", "lib134"), Line("idle", "run", "lib140"),
      Line("lib134", "lock", "lib135"), Line("lib135", "unlock", "lib140"),
      Line("lib140", "lock", "lib140v"), Line("lib140v", "unlock", "lib141"),
      Line("lib141", "run", "ui19"), Line("lib141", "run", "idle") }

\* Mutant of SendCode: the guard of the Send handler's block is still alive
\* when the history is cloned.
SendCode_GuardOutlivesBlock ==
    { Line("ui127", "lock", "ui143"), Line("ui143", "run", "ui145"),
      Line("ui145", "run", "ui150"), Line("ui145", "run", "ui202"),
      Line("ui150", "lock", "ui150v"), Line("ui150v", "unlock", "ui153"),
      Line("ui153", "run", "ui157"), Line("ui153", "run", "ui166"),
      Line("ui157", "lock", "ui157v"), Line("ui157v", "unlock", "ui166"),
      Line("ui166", "spawn", "ui202") }

\* ui.rs draw_panel, "Handle send": the block that pushes the user message,
\* the clone of the history, the error of a failed capture, RUNTIME.spawn
SendCode ==
    { Line("ui127", "lock", "ui143"), Line("ui143", "unlock", "ui145"),
      Line("ui145", "run", "ui150"), Line("ui145", "run", "ui202"),
      Line("ui150", "lock", "ui150v"), Line("ui150v", "unlock", "ui153"),
      Line("ui153", "run", "ui157"), Line("ui153", "run", "ui166"),
      Line("ui157", "lock", "ui157v"), Line("ui157v", "unlock", "ui166"),
      Line("ui166", "spawn", "ui202") }

\* ui.rs draw_panel: the snapshot, Cancel or Send, Clear Chat, the
\* write-back
DrawPanelCode ==
    { Line("ui19", "lock", "ui31"), Line("ui31", "unlock", "ui100"),
      Line("ui100", "run", "ui103"), Line("ui100", "run", "ui127"),
      Line("ui100", "run", "ui202"),
      Line("ui103", "lock", "ui116"), Line("ui116", "unlock", "ui202"),
      Line("ui202", "run", "ui205"), Line("ui202", "run", "ui215"),
      Line("ui205", "lock", "ui211"), Line("ui211", "unlock", "ui215"),
      Line("ui215", "lock", "ui218"), Line("ui218", "unlock", "idle") }
    \cup SendCode

\* lib.rs message_filter
FilterCode ==
    { Line("idle", "run", "lib147"),
      Line("lib147", "lock", "lib147v"), Line("lib147v", "unlock", "idle") }

\* Mutant of StreamCode: the guard of a chunk lives on into the next
\* stream.next().await.
StreamCode_GuardAcrossAwait ==
    { Line("api224", "await", "api226"), Line("api224", "await", "ui168"),
      Line("api226", "run", "api250"), Line("api226", "run", "api224"),
      Line("api250", "lock", "api251"),
      Line("api251", "unlock", "ui168"), Line("api251", "run", "api226") }

\* api.rs send_message, the stream loop: stream.next().await, the lines of
\* the chunk, and for a line with text the guard that is dropped by the
\* return of Err("Cancelled") or at the end of the if block
StreamCode ==
    { Line("api224", "await", "api226"), Line("api224", "await", "ui168"),
      Line("api226", "run", "api250"), Line("api226", "run", "api224"),
      Line("api250", "lock", "api251"),
      Line("api251", "unlock", "ui168"), Line("api251", "unlock", "api226") }

\* api.rs send_message up to the stream, and the closure of ui.rs that
\* awaits it and writes the result back: the missing key returns at once;
\* the guard of `STATE.lock().game_name.clone()` ends with its statement;
\* send().await; a refusal returns
TaskCode ==
    { Line("api108", "run", "ui168"), Line("api108", "run", "api163"),
      Line("api163", "lock", "api163v"), Line("api163v", "unlock", "api193"),
      Line("api193", "await", "api208"),
      Line("api208", "run", "ui168"), Line("api208", "run", "api224"),
      Line("ui168", "lock", "ui169"), Line("ui169", "unlock", "done") }
    \cup StreamCode

\* translation.rs spawn_translate_request, the local provider: the await of
\* send_local_translation (none without a screenshot), the guard, dropped by
\* the return of a cancelled request, by drop(state) before log_exchange, or
\* at the end of the Err arm
TranslateCode ==
    { Line("unspawned", "run", "tr158"),
      Line("tr158", "await", "tr163"), Line("tr158", "run", "tr163"),
      Line("tr163", "lock", "tr164"),
      Line("tr164", "unlock", "done"), Line("tr164", "unlock", "tr183"),
      Line("tr183", "run", "done") }

\* The code thread th runs.
Code(th) ==
    IF th = "render" THEN RenderCode \cup DrawPanelCode
    ELSE IF th = "filter" THEN FilterCode
    ELSE IF th = "translate" THEN TranslateCode
    ELSE TaskCode

\* What thread th can do next.
Here(th) == {l \in Code(th) : l.at = lpc[th]}
AtLock(th) == \E l \in Here(th) : l.op = "lock"
AtAwait(th) == \E l \in Here(th) : l.op = "await"

everythingButLock == <<stateVars, captureVars, api_key_empty, f9_was_pressed,
                       frameVars, tasks, trimVars, keyVars, filter, bootVars,
                       activeVars, loaderVars, detectVars, gdiVars, logVars,
                       sseVars>>

\* The hooks are installed; no request and no translation has been spawned.
InitLock ==
    /\ StateInit
    /\ RenderInit
    /\ api_key_empty \in BOOLEAN
    /\ tasks = <<>>
    /\ TrimIdle
    /\ InputIdle
    /\ BootParked
    /\ LoaderIdle
    /\ LogEmpty
    /\ StreamIdle
    /\ FunctionsIdle
    /\ lock_holder = "none"
    /\ lpc = [th \in Threads |->
                 IF th \in {"render", "filter"} THEN "idle" ELSE "unspawned"]

\* Mutex::lock(): the thread takes the free mutex; it blocks while another
\* thread holds it; a thread that holds it already waits for itself for ever
MutexLock(th) ==
    /\ \E l \in Here(th) :
          /\ l.op = "lock"
          /\ \/ /\ lock_holder = "none"
                /\ lock_holder' = th
                /\ lpc' = [lpc EXCEPT ![th] = l.to]
             \/ /\ lock_holder = th
                /\ lpc' = [lpc EXCEPT ![th] = "deadlocked"]
                /\ UNCHANGED lock_holder
    /\ UNCHANGED everythingButLock

\* The guard goes out of scope.
GuardDrop(th) ==
    /\ lock_holder = th
    /\ \E l \in Here(th) :
          /\ l.op = "unlock"
          /\ lpc' = [lpc EXCEPT ![th] = l.to]
    /\ lock_holder' = "none"
    /\ UNCHANGED everythingButLock

\* Code that neither locks nor suspends; Send is taken while a task can
\* still be spawned.
RunOn(th) ==
    /\ \E l \in Here(th) :
          /\ l.op = "run"
          /\ l.to = "ui127" => \E t \in TaskThreads : lpc[t] = "unspawned"
          /\ lpc' = [lpc EXCEPT ![th] = l.to]
    /\ UNCHANGED <<lock_holder, everythingButLock>>

\* An .await of a task: the task is suspended until the network answers.
Resume(th) ==
    /\ \E l \in Here(th) :
          /\ l.op = "await"
          /\ lpc' = [lpc EXCEPT ![th] = l.to]
    /\ UNCHANGED <<lock_holder, everythingButLock>>

\* ui.rs: RUNTIME.spawn: a task starts at the top of send_message
SpawnTask(t) ==
    /\ t \in TaskThreads
    /\ lpc[t] = "unspawned"
    /\ \E l \in Here("render") :
          /\ l.op = "spawn"
          /\ lpc' = [lpc EXCEPT !["render"] = l.to, ![t] = "api108"]
    /\ UNCHANGED <<lock_holder, everythingButLock>>

NextLock ==
    \/ \E th \in Threads : MutexLock(th)
    \/ \E th \in Threads : GuardDrop(th)
    \/ \E th \in Threads : RunOn(th)
    \/ \E th \in Threads : Resume(th)
    \/ \E t \in TaskThreads : SpawnTask(t)

SpecLock == InitLock /\ [][NextLock]_vars

(***************************************************************************)
(* Properties.                                                             *)
(***************************************************************************)
\* Task t takes a step.
TaskActs(t) == t \in DOMAIN tasks /\ tasks'[t] # tasks[t]

\* Steps of the render thread, by the critical section they run.
CancelStep == rpc = "cancel" /\ rpc' # rpc
SendStep == rpc = "send" /\ rpc' # rpc
ClearStep == rpc = "checkbox" /\ rpc' = "writeback"

Last(msgs) == msgs[Len(msgs)]

\* C1: a task whose captured generation differs from request_generation
\* leaves messages, streaming_response, error and is_loading as they are, in
\* every step it takes (a chunk or the final write-back).
C1_StaleTaskWritesNothing ==
    [][\A t \in TaskIds :
          (TaskActs(t) /\ request_generation # tasks[t].gen)
          => UNCHANGED <<messages, streaming_response, error, is_loading>>]_vars

\* C1 witness: a task read a chunk after its generation was superseded and
\* dropped it, while text of another origin is on display.
C1_Witness ==
    \E t \in DOMAIN tasks :
        /\ tasks[t].pc = "cancelled"
        /\ tasks[t].gen < request_generation
        /\ messages # <<>>

\* The live tasks whose captured generation is the current one.
CurrentTasks ==
    {t \in DOMAIN tasks : Live(t) /\ tasks[t].gen = request_generation}

\* C2: while is_loading, at most one live task carries the current
\* generation; and whenever streaming_response grows, is_loading holds and the
\* step is a step of that one task.
C2_OneStreamingTask ==
    /\ [](is_loading => Cardinality(CurrentTasks) <= 1)
    /\ [][Len(streaming_response') > Len(streaming_response)
          => /\ is_loading
             /\ \E t \in CurrentTasks : TaskActs(t) /\ CurrentTasks = {t}]_vars

\* C2 witness: a request is streaming while an older task is still alive.
C2_Witness ==
    /\ is_loading
    /\ streaming_response # <<>>
    /\ \E t, u \in DOMAIN tasks :
          /\ Live(t) /\ tasks[t].gen = request_generation
          /\ Live(u) /\ tasks[u].gen < request_generation

\* C3: request_generation never decreases; a Send that appends, a Cancel and
\* a Clear Chat each raise it; no other step changes it.
C3_GenerationMonotonic ==
    [][/\ request_generation' >= request_generation
       /\ (SendStep /\ Len(messages') > Len(messages))
             => request_generation' > request_generation
       /\ CancelStep => request_generation' > request_generation
       /\ ClearStep => request_generation' > request_generation
       /\ request_generation' # request_generation
             => SendStep \/ CancelStep \/ ClearStep]_vars

\* C3 witness: the counter was raised by a Send, a Cancel and a Send again.
C3_Witness ==
    /\ request_generation = 3
    /\ Len(tasks) = 2
    /\ is_loading

\* No assistant turn first, no two assistant turns in a row.
RolesAlternate(msgs) ==
    /\ msgs # <<>> => msgs[1].role = User
    /\ \A i \in 1..(Len(msgs) - 1) :
          ~(msgs[i].role = Assistant /\ msgs[i + 1].role = Assistant)

\* C4: the list never starts with an assistant turn and never holds two
\* assistant turns in a row; and a user turn is pushed after a user turn only
\* when the earlier request failed or was cancelled (error says so).
C4_RolesAlternate ==
    /\ []RolesAlternate(messages)
    /\ [][(SendStep /\ Len(messages') > Len(messages)
             /\ messages # <<>> /\ Last(messages).role = User)
          => error \notin {None, Some(ScreenshotFailedError)}]_vars

\* C4 witness: a failed send left its user turn last, the next send pushed a
\* second one, and a partial reply was committed after it.
C4_Witness ==
    /\ Len(messages) = 3
    /\ messages[1].role = User
    /\ messages[2].role = User
    /\ messages[3].role = Assistant

\* C5: the slice send_message sends holds at most 50 messages, starts with a
\* user turn and is a suffix of the history it was given.
C5_TrimmedSlice ==
    sent # None =>
        LET slice == sent[1] IN
        /\ Len(slice) <= 50
        /\ slice # <<>>
        /\ slice[1].role = User
        /\ \E k \in 1..Len(given) : slice = SubSeq(given, k, Len(given))

\* C5 witness: a history of more than 50 messages whose 50th message from
\* the end is an assistant turn, trimmed to 49.
C5_Witness ==
    /\ sent # None
    /\ Len(given) > 50
    /\ given[Len(given) - 49].role = Assistant
    /\ Len(sent[1]) = 49

\* C6: Clear Chat leaves messages and streaming_response empty, error none,
\* is_loading false and request_generation raised, whatever the state it
\* runs in; and from then to the next Send nothing puts a message or
\* streamed text back.
C6_ClearChat ==
    [][/\ ClearStep =>
             /\ messages' = <<>>
             /\ streaming_response' = <<>>
             /\ error' = None
             /\ is_loading' = FALSE
             /\ request_generation' > request_generation
       /\ (messages = <<>> /\ streaming_response = <<>> /\ ~is_loading
             /\ ~SendStep)
             => messages' = <<>> /\ streaming_response' = <<>>]_vars

\* C6 witness: Clear Chat ran while a request was streaming, and the
\* orphaned task has since read another fragment.
C6_Witness ==
    /\ messages = <<>>
    /\ streaming_response = <<>>
    /\ ~is_loading
    /\ \E t \in DOMAIN tasks :
          /\ tasks[t].pc = "cancelled"
          /\ Len(tasks[t].full_text) = 2

\* " [cancelled]"
C7_Marker == <<" ", "[", "c", "a", "n", "c", "e", "l", "l", "e", "d", "]">>

\* C7: Cancel commits a non-empty partial text as one assistant message
\* ending in " [cancelled]" and clears it, appends nothing when there is no
\* partial text, and in both cases sets error to "Cancelled.", is_loading to
\* false and raises request_generation; a fragment that a task of an older
\* generation reads afterwards changes neither the stream nor the messages.
C7_Cancel ==
    [][/\ CancelStep =>
             /\ IF streaming_response # <<>>
                THEN messages' = Append(messages,
                        [role |-> Assistant,
                         content |-> streaming_response \o C7_Marker])
                ELSE messages' = messages
             /\ streaming_response' = <<>>
             /\ error' = <<"Cancelled.">>
             /\ is_loading' = FALSE
             /\ request_generation' = request_generation + 1
       /\ \A t \in TaskIds :
             (/\ TaskActs(t)
              /\ tasks[t].pc = "stream"
              /\ tasks[t].gen < request_generation
              /\ Len(tasks'[t].full_text) > Len(tasks[t].full_text))
             => UNCHANGED <<messages, streaming_response>>]_vars

\* C7 witness: the partial text "a" was committed as "a [cancelled]" and the
\* orphaned task then read its second fragment.
C7_Witness ==
    /\ messages # <<>>
    /\ Last(messages) = [role |-> Assistant, content |-> <<"a">> \o C7_Marker]
    /\ error = <<"Cancelled.">>
    /\ streaming_response = <<>>
    /\ \E t \in DOMAIN tasks :
          tasks[t].pc = "cancelled" /\ tasks[t].full_text = <<"a", "b">>

\* C8: Send with a non-blank input_buffer pushes one user message holding the
\* trimmed text, clears the input, sets is_loading, clears error, raises
\* request_generation and clears streaming_response in that one step; Send
\* with a blank input_buffer changes no state, yields no generation and so
\* spawns no task.
C8_Send ==
    [][SendStep =>
          IF Trim(input_buffer) # <<>>
          THEN /\ messages' = Append(messages,
                      [role |-> User, content |-> Trim(input_buffer)])
               /\ Head(Trim(input_buffer)) \notin Whitespace
               /\ Last(Trim(input_buffer)) \notin Whitespace
               /\ input_buffer' = <<>>
               /\ is_loading' = TRUE
               /\ error' = None
               /\ request_generation' = request_generation + 1
               /\ streaming_response' = <<>>
               /\ generation' = <<request_generation'>>
               /\ rpc' = "clone"
          ELSE /\ UNCHANGED stateVars
               /\ UNCHANGED tasks
               /\ generation' = None
               /\ rpc' = "checkbox"]_vars

\* C8 witness: " q\n" was sent as "q", the second message of the chat.
C8_Witness ==
    /\ rpc = "clone"
    /\ Len(messages) = 2
    /\ Last(messages) = [role |-> User, content |-> <<"q">>]
    /\ is_loading
    /\ error = None
    /\ input_buffer = <<>>

\* C9 (as claimed): the screenshot capture runs only in a frame that does
\* not draw the panel.
C9_CaptureOnlyWhenNotDrawn == capture_called => ~panel_drawn

\* C10 (as claimed): a Send with Attach Screenshot checked arms the
\* quiescing handshake and spawns nothing in its own frame.
C10_AttachSendQuiesces ==
    /\ (rpc \in {"clone", "capture", "spawn"} /\ snap_attach)
          => /\ capture_pending
             /\ capture_wait_frames = 2
             /\ send_pending_capture
    /\ rpc = "spawn" => ~snap_attach

\* Steps of the render thread around the capture.
CaptureStep == rpc = "capture" /\ rpc' # rpc
SpawnStep == rpc = "spawn" /\ rpc' # rpc

\* C11: a capture that fails sets error to the screenshot notice, leaves
\* is_loading true and goes on to the spawn; the spawn that follows hands the
\* task no image and the generation of this send; and as long as a live task
\* carries the current generation is_loading stays true, so after a failed
\* capture it is the task's write-back (or a Cancel or Clear Chat, which
\* supersede the request) that ends the loading.
C11_CaptureFailureNonFatal ==
    /\ [][(CaptureStep /\ screenshot' = None)
            => /\ error' = <<ScreenshotFailedError>>
               /\ is_loading /\ is_loading'
               /\ generation' = <<request_generation>>
               /\ rpc' = "spawn"]_vars
    /\ [][SpawnStep
            => /\ Len(tasks') = Len(tasks) + 1
               /\ Last(tasks').screenshot = screenshot
               /\ Last(tasks').gen = request_generation
               /\ Last(tasks').pc = "start"
               /\ is_loading /\ is_loading']_vars
    /\ [](\A t \in DOMAIN tasks :
             (Live(t) /\ tasks[t].gen = request_generation) => is_loading)

\* C11 witness: the capture failed, the request was spawned without an image
\* and is streaming its reply while the notice is in error.
C11_Witness ==
    /\ error = <<ScreenshotFailedError>>
    /\ is_loading
    /\ streaming_response # <<>>
    /\ \E t \in DOMAIN tasks :
          /\ tasks[t].pc = "stream"
          /\ tasks[t].gen = request_generation
          /\ tasks[t].screenshot = None

\* C12: visible flips exactly in the frames that find the toggle key down
\* when the previous frame found it up; a frame that finds it still down
\* leaves visible alone, and so does every step that is not the start of a
\* frame.
C12_RisingEdgeToggle ==
    [][/\ (visible' # visible)
            <=> (VK_F9 \in keys_down' /\ VK_F9 \notin keys_down)
       /\ (VK_F9 \in keys_down /\ VK_F9 \in keys_down') => visible' = visible
       /\ (visible' # visible) => rpc = "idle"]_vars

\* C12 witness: the key has been down for two frames in a row since the
\* start, and the panel, toggled once, is visible.
C12_Witness ==
    /\ frames_held = 2
    /\ VK_F9 \in keys_down
    /\ visible
    /\ rpc = "idle"

\* C13 (as claimed): visible flips exactly in the frames that find the key
\* named by the configured hotkey down when the previous frame found it up.
C13_ConfiguredHotkeyToggles ==
    [][(visible' # visible)
          <=> /\ parse_vk_code(hotkey)[1] \in keys_down'
              /\ parse_vk_code(hotkey)[1] \notin keys_down]_vars

\* C14: the answer message_filter gives for an input event is "swallow all
\* input" when visible is true at the call and "pass through" when it is
\* false.
C14_FilterFollowsVisible ==
    [][(filter = "none" /\ filter' # "none")
          => filter' = IF visible THEN "InputAll" ELSE "empty"]_vars

\* C14 witness: the host was told to swallow an event while the panel is
\* visible and the toggle key has been released.
C14_Witness ==
    /\ filter = "InputAll"
    /\ visible
    /\ frames_held = 0

IsPrefix(s, t) == Len(s) <= Len(t) /\ s = SubSeq(t, 1, Len(s))

Done(phase) == \E i \in DOMAIN phases : phases[i] = phase

\* C15: the phases complete in the order handle, worker, (tracing,) dxgi,
\* backend, settle, game, log, hooks, none skipped: the handle is stored when
\* the worker runs, dxgi.dll is loaded when the backend is chosen, and the
\* hooks are attempted only when every earlier phase has completed.
C15_PhasesInOrder ==
    /\ IsPrefix(phases, BootOrder)
    /\ bpc \notin {"unattached", "spawn"} => dll_hinstance # None
    /\ Done("worker") => Done("handle") /\ dll_hinstance # None
    /\ Done("backend") => Done("dxgi") /\ "dxgi.dll" \in modules /\ api # None
    /\ Done("settle") => Done("backend")
    /\ Done("game") => Done("settle")
    /\ Done("log") => Done("game") /\ session_log
    /\ hooks # "none" =>
          /\ \A i \in 1..8 : Done(BootOrder[i])
          /\ dll_hinstance # None /\ "dxgi.dll" \in modules
          /\ api # None /\ session_log
    /\ Done("hooks") <=> hooks = "applied"

\* C15 witness: the hooks are installed after an auto-detection, with a game
\* name detected and stored.
C15_Witness ==
    /\ hooks = "applied"
    /\ bpc = "monitor"
    /\ graphics_api = None
    /\ game_name = <<"Game">>
    /\ phases = BootOrder

\* The backend modules in priority order, and the backend of each.
C16_Priority == <<"d3d12.dll", "d3d11.dll", "d3d9.dll", "opengl32.dll">>
C16_Backend == <<"dx12", "dx11", "dx9", "opengl">>

\* C16: the step that chooses the backend takes the forced one when the
\* configuration forces one, and otherwise the backend of the first module of
\* the priority order that is loaded.
C16_BackendChoice ==
    [][(api = None /\ api' # None) =>
          IF graphics_api # None
          THEN api' = graphics_api
          ELSE \E i \in 1..4 :
                  /\ C16_Priority[i] \in modules
                  /\ \A j \in 1..(i - 1) : C16_Priority[j] \notin modules
                  /\ api' = <<C16_Backend[i]>>]_vars

\* C16 witness: with d3d11.dll, d3d9.dll and opengl32.dll loaded and
\* d3d12.dll not, the auto-detection has chosen dx11.
C16_Witness ==
    /\ bpc = "settle"
    /\ graphics_api = None
    /\ modules = {"dxgi.dll", "d3d11.dll", "d3d9.dll", "opengl32.dll"}
    /\ api = <<"dx11">>

\* The backend modules.
C17_BackendModules == {"d3d12.dll", "d3d11.dll", "d3d9.dll", "opengl32.dll"}

\* C17: with no forced backend the worker makes at most 150 probes, 100 ms
\* apart (15 s in all); a probe that finds a backend module loaded continues
\* the bootstrap with a backend, a probe that finds none either waits or, if
\* it is the 150th, ejects; and after that eject no hook is ever installed.
C17_ProbeWindow ==
    /\ [](/\ probes <= 150
          /\ probes * ProbeSleepMs <= 15000
          /\ eject_reason = "no_backend" =>
                /\ probes = 150 /\ graphics_api = None /\ api = None
                /\ hooks = "none" /\ bpc = "ejected")
    /\ [][(bpc = "choose" /\ graphics_api = None /\ probes' # probes) =>
             /\ modules \cap C17_BackendModules = {}
             /\ probes' = probes + 1
             /\ bpc' = IF probes' = 150 THEN "ejected" ELSE "choose"]_vars
    /\ [][(bpc = "choose" /\ graphics_api = None /\ bpc' # bpc
             /\ modules \cap C17_BackendModules # {}) =>
             /\ bpc' = "settle"
             /\ api' # None
             /\ eject_reason' = "none"]_vars

\* C17 witness: the 150th probe found a backend module and the bootstrap
\* goes on.
C17_Witness ==
    /\ bpc = "settle"
    /\ graphics_api = None
    /\ probes = 149
    /\ api # None

\* C18: with dx9 or opengl chosen no hook is ever installed or attempted,
\* the worker never monitors or parks, and the step at the hook phase ejects.
C18_UnsupportedEjects ==
    /\ [](api \in {<<"dx9">>, <<"opengl">>} =>
              /\ hooks = "none"
              /\ bpc \notin {"monitor", "monitored", "parked"})
    /\ [][(bpc = "hooks" /\ api \in {<<"dx9">>, <<"opengl">>}
             /\ bpc' # bpc) =>
             /\ bpc' = "ejected"
             /\ eject_reason' = "unsupported"
             /\ hooks' = "none"]_vars

\* C18 witness: dx9 was auto-detected and the worker has ejected at the hook
\* phase.
C18_Witness ==
    /\ eject_reason = "unsupported"
    /\ graphics_api = None
    /\ api = <<"dx9">>
    /\ bpc = "ejected"
    /\ session_log

\* C19: the worker is ejected exactly when a failure was met (no backend,
\* unsupported backend, apply error); a failed apply ejects in the step that
\* meets it; an ejected worker has made no liveness poll, has not parked, has
\* no hooks applied, sees no frame, and takes no further step.
C19_FailuresEject ==
    /\ [](/\ (bpc = "ejected") <=> (eject_reason # "none")
          /\ eject_reason \in {"none", "no_backend", "unsupported",
                                "apply_failed"}
          /\ hooks = "failed" => bpc = "ejected"
          /\ bpc = "ejected" =>
                /\ polls = 0 /\ ~warned
                /\ hooks # "applied"
                /\ ~RENDER_ACTIVE)
    /\ [][bpc = "ejected" =>
             UNCHANGED <<bpc, dll_hinstance, graphics_api, probes, api,
                         game_name, session_log, hooks, polls, warned, phases,
                         eject_reason, RENDER_ACTIVE>>]_vars

\* C19 witness: apply() failed for an auto-detected dx11 and the worker has
\* ejected.
C19_Witness ==
    /\ eject_reason = "apply_failed"
    /\ hooks = "failed"
    /\ api = <<"dx11">>
    /\ bpc = "ejected"
    /\ polls = 0

\* C20: once the hooks are applied the worker only monitors and parks: it
\* makes at most 10 polls, 1 s apart, stops polling at the first poll that
\* finds RENDER_ACTIVE true or at the tenth, never ejects, parks in both
\* cases, and once parked stays parked.
C20_MonitorThenPark ==
    /\ [](hooks = "applied" =>
              /\ bpc \in {"monitor", "monitored", "parked"}
              /\ eject_reason = "none"
              /\ polls <= 10
              /\ polls * MonitorSleepMs <= 10000)
    /\ [](bpc \in {"monitored", "parked"} =>
              polls >= 1 /\ (polls = 10 \/ RENDER_ACTIVE))
    /\ [][bpc = "parked" => bpc' = "parked"]_vars
    /\ [][(bpc = "monitor" /\ polls' # polls) =>
             /\ polls' = polls + 1
             /\ bpc' = IF RENDER_ACTIVE \/ polls' = 10
                       THEN "monitored" ELSE "monitor"]_vars
    /\ (hooks = "applied") ~> (bpc = "parked")

\* C20 witness: ten polls found no frame, the warning was logged and the
\* worker is parked.
C20_Witness ==
    /\ bpc = "parked"
    /\ polls = 10
    /\ warned
    /\ ~RENDER_ACTIVE
    /\ hooks = "applied"

\* Steps of the watch loop: the top of a tick, and one turn of the scan.
TickStep == wpc = "tick" /\ wpc' = "scan"
ScanStep == wpc = "scan" /\ todo' # todo

\* C21 (as claimed): the top of a tick removes every recorded PID that is
\* not in the snapshot from the injected-PID set and from the name-to-PID
\* map.
C21_ExitedPidsForgotten ==
    [][TickStep =>
          \A pid \in injected_pids :
              pid \notin {pr.pid : pr \in procs'} =>
                  /\ pid \notin injected_pids'
                  /\ \A name \in DOMAIN active_injections' :
                        active_injections'[name] # pid]_vars

C23_InjectedOnce ==
    \A pid \in Pids :
        /\ loaded[pid] <= 1
        /\ loaded[pid] = 1 => pid \in injected_pids

\* C24 (as claimed): once the exit of a game was observed, the turn of the
\* scan that records a new PID of that game has injected the library into
\* the process of that PID.
C24_ReinjectsNewPid ==
    [][(ScanStep /\ "game.exe" \in exit_observed) =>
          \A pid \in injected_pids' \ injected_pids :
              loaded'[pid] = loaded[pid] + 1]_vars

\* C25: the watch loop is at the top of a tick or in its scan, always: it
\* has not returned and has not panicked.
C25_WatchNeverExits ==
    /\ [](wpc \in {"tick", "scan"})
    /\ [][wpc = "scan" => wpc' \in {"scan", "tick"}]_vars
    /\ [][wpc = "tick" => wpc' \in {"scan", "tick"}]_vars

\* C25 witness: the loop is at the top of a tick after ticks that injected,
\* saw a game exit and injected again.
C25_Witness ==
    /\ wpc = "tick"
    /\ exit_observed # {}
    /\ injected_pids # {}
    /\ \E pid \in Pids : loaded[pid] = 1

\* C26: one-shot mode makes at most one injection attempt, and only after a
\* lookup that found the process; it exits 0 exactly when that attempt
\* loaded the library and non-zero when it failed; it exits non-zero without
\* an attempt only when the timeout is 0 or has elapsed, and looks again only
\* while the timeout has not elapsed; with timeout 0 it makes one lookup;
\* and it terminates.
C26_OneShotTerminates ==
    /\ [](inject_attempts <= 1)
    /\ [](opc = "exit0" => inject_attempts = 1)
    /\ [](timeout_secs = 0 => lookups <= 1)
    /\ []((timeout_secs = 0 /\ opc # "lookup") => lookups = 1)
    /\ [](lookups <= timeout_secs + 1)
    /\ [][(opc = "lookup" /\ opc' = "exit0") =>
            /\ inject_attempts' = 1
            /\ \E pid \in Pids : /\ to_lowercase(os[pid]) = "game.exe"
                                 /\ loaded'[pid] = loaded[pid] + 1]_vars
    /\ [][(opc = "lookup" /\ opc' = "exit1") =>
            /\ loaded' = loaded
            /\ inject_attempts' = 0 =>
                  (timeout_secs = 0 \/ elapsed >= timeout_secs)]_vars
    /\ [][(opc = "lookup" /\ opc' = "lookup" /\ lookups' # lookups) =>
            /\ elapsed < timeout_secs
            /\ elapsed' > elapsed
            /\ inject_attempts' = 0
            /\ loaded' = loaded]_vars
    /\ [][(opc = "exit0" \/ opc = "exit1") =>
            (UNCHANGED <<opc, lookups, inject_attempts, elapsed>>)]_vars
    /\ <>(opc \in {"exit0", "exit1"})

\* C26 witness: with a timeout above 0 the process was not there at the
\* first lookup, appeared while the loader slept, and the attempt succeeded.
C26_Witness ==
    /\ opc = "exit0"
    /\ timeout_secs > 0
    /\ lookups >= 2
    /\ inject_attempts = 1
    /\ \E pid \in Pids : loaded[pid] = 1

\* The remote refuses the request of task t with status code, and the
\* request was not cancelled.
RefusalStep(t, code) ==
    /\ t \in DOMAIN tasks
    /\ tasks[t].pc = "start"
    /\ tasks'[t].pc = "done"
    /\ tasks'[t].status = code
    /\ request_generation = tasks[t].gen

\* What a refusal of an uncancelled request leaves behind, apart from the
\* error string: the loading ended, and the history as it was, its last
\* message the user's.
RefusalOutcome ==
    /\ is_loading
    /\ ~is_loading'
    /\ messages' = messages
    /\ messages # <<>>
    /\ Last(messages).role = User
    /\ streaming_response' = <<>>

\* C27 (as claimed): an uncancelled request refused with 403 sets error to
\* "Invalid API key." and one refused with 429 sets it to "Rate limited.".
C27_ShortStrings ==
    [][\A t \in TaskIds :
          /\ RefusalStep(t, 403) => error' = <<"Invalid API key.">>
          /\ RefusalStep(t, 429) => error' = <<"Rate limited.">>]_vars

\* C27 (amended): an uncancelled request refused with a non-success status
\* sets error to the string the code maps the status to (the 403 and 429
\* strings carry a hint after the sentence of the table), ends the loading
\* and adds no message.
C27_StatusErrorMapped ==
    [][\A t \in TaskIds :
          /\ RefusalStep(t, 400) =>
                /\ error' = <<"Bad request. Try a shorter message.">>
                /\ RefusalOutcome
          /\ RefusalStep(t, 403) =>
                /\ error' = <<"Invalid API key. Check config.toml.">>
                /\ RefusalOutcome
          /\ RefusalStep(t, 429) =>
                /\ error' =
                     <<"Rate limited. Free tier allows ~250 requests/day.">>
                /\ RefusalOutcome
          /\ RefusalStep(t, 500) =>
                /\ error' = <<"API server error. Try again.">>
                /\ RefusalOutcome
          /\ RefusalStep(t, 503) =>
                /\ error' = <<"API server error. Try again.">>
                /\ RefusalOutcome
          /\ RefusalStep(t, 404) =>
                /\ error' = <<"API error (HTTP 404).">>
                /\ RefusalOutcome]_vars

\* C27 witness: the current request was refused with 403 and the panel shows
\* the mapped string over a history that ends with the user's message.
C27_Witness ==
    /\ error = <<"Invalid API key. Check config.toml.">>
    /\ ~is_loading
    /\ messages # <<>>
    /\ Last(messages).role = User
    /\ \E t \in DOMAIN tasks :
          /\ tasks[t].pc = "done"
          /\ tasks[t].status = 403
          /\ tasks[t].gen = request_generation

\* The words of a cleaned stem under a rule that says where a space goes in:
\* '-' and '_' are spaces; a word starts at a character that is no space and
\* is the first, follows a space, or has a space put in front by the rule;
\* each word has its first character uppercased; the words are joined by one
\* space.
WordStarts(chars, Rule(_, _)) ==
    {i \in 1..Len(chars) :
        /\ chars[i] # " "
        /\ i = 1 \/ chars[i - 1] = " " \/ Rule(chars, i)}

WordEnd(chars, starts, i) ==
    CHOOSE j \in i..Len(chars) :
        /\ \A k \in (i + 1)..j : chars[k] # " " /\ k \notin starts
        /\ j = Len(chars) \/ chars[j + 1] = " " \/ (j + 1) \in starts

ExpectedWords(stem, Rule(_, _)) ==
    LET chars == [i \in 1..Len(stem) |->
                     IF stem[i] \in {"-", "_"} THEN " " ELSE stem[i]]
        starts == WordStarts(chars, Rule)
        nth(n) == CHOOSE i \in starts :
                      Cardinality({j \in starts : j <= i}) = n
    IN  [n \in 1..Cardinality(starts) |->
            LET word == SubSeq(chars, nth(n), WordEnd(chars, starts, nth(n)))
            IN  <<char_to_uppercase(word[1])>> \o Tail(word)]

\* The file name without .exe or .EXE at its end.
Stem(name) ==
    IF strip_suffix(name, <<".", "e", "x", "e">>) # None
    THEN strip_suffix(name, <<".", "e", "x", "e">>)[1]
    ELSE IF strip_suffix(name, <<".", "E", "X", "E">>) # None
    THEN strip_suffix(name, <<".", "E", "X", "E">>)[1]
    ELSE name

ExpectedName(name, Rule(_, _)) ==
    LET words == ExpectedWords(Stem(name), Rule) IN
    IF words = <<>> THEN None ELSE Some(join(words))

\* The rule as claimed: before every uppercase letter that follows a
\* lowercase letter or precedes a lowercase letter.
ClaimedRule(chars, i) ==
    /\ is_uppercase(chars[i])
    /\ \/ i > 1 /\ is_lowercase(chars[i - 1])
       \/ i < Len(chars) /\ is_lowercase(chars[i + 1])

\* The rule as amended: before every uppercase letter that follows a
\* lowercase letter, or follows an uppercase letter and precedes a lowercase
\* letter.
AcronymRule(chars, i) ==
    /\ i > 1
    /\ is_uppercase(chars[i])
    /\ \/ is_lowercase(chars[i - 1])
       \/ /\ is_uppercase(chars[i - 1])
          /\ i < Len(chars)
          /\ is_lowercase(chars[i + 1])

\* detect_game_name has returned for a host without configuration and
\* without windows whose path is a bare file name, so that what it returned
\* is the cleaned file name.
CleanupDone ==
    /\ dpc = "done"
    /\ exe_path # None
    /\ \A i \in 1..Len(exe_path[1]) : exe_path[1][i] # "\\"
    /\ games = <<>>
    /\ windows = <<>>

\* C29 (as claimed): the cleaned name has a space before every uppercase
\* letter that follows a lowercase letter or precedes a lowercase letter.
C29_SpaceBeforeEveryCapital ==
    CleanupDone => detect_result = ExpectedName(exe_path[1], ClaimedRule)

\* C29 (amended): for every file name of up to MaxStem characters over
\* lowercase, uppercase, digit, '-' and '_', with or without .exe/.EXE, the
\* cleaned name is the stem with '-' and '_' as spaces, a space before every
\* uppercase letter that follows a lowercase letter or follows an uppercase
\* letter and precedes a lowercase letter, each word's first character
\* uppercased, and none when nothing is left; and the four examples give
\* Dark Souls III, GAME, My Cool Game and none.
C29_ExeNameCleanup ==
    /\ CleanupDone => detect_result = ExpectedName(exe_path[1], AcronymRule)
    /\ (dpc = "done" /\ exe_path = Some(<<"D", "a", "r", "k", "S", "o", "u", "l", "s", "I", "I", "I", ".", "e", "x", "e">>))
          => detect_result = Some(<<"D", "a", "r", "k", " ", "S", "o", "u", "l", "s", " ", "I", "I", "I">>)
    /\ (dpc = "done" /\ exe_path = Some(<<"G", "A", "M", "E", ".", "e", "x", "e">>))
          => detect_result = Some(<<"G", "A", "M", "E">>)
    /\ (dpc = "done" /\ exe_path = Some(<<"m", "y", "_", "c", "o", "o", "l", "_", "g", "a", "m", "e", ".", "e", "x", "e">>))
          => detect_result = Some(<<"M", "y", " ", "C", "o", "o", "l", " ", "G", "a", "m", "e">>)
    /\ (dpc = "done" /\ exe_path = Some(<<".", "e", "x", "e">>))
          => detect_result = None

\* C29 witness: a name whose capital follows a digit and precedes a lowercase
\* letter was cleaned, and no space went in.
C29_Witness ==
    /\ CleanupDone
    /\ exe_path = Some(<<"1", "A", "b", ".", "e", "x", "e">>)
    /\ detect_result = Some(<<"1", "A", "b">>)

\* The entries of CONFIG.games that carry a display name for the host's file
\* name, whatever the case.
NamedEntries ==
    LET exe == current_exe_name(exe_path) IN
    {k \in 1..Len(games) :
        /\ exe # None
        /\ str_to_lowercase(games[k].process) = str_to_lowercase(exe[1])
        /\ games[k].name # None}

\* The titles of the host's visible windows that are not junk.
UsableTitles ==
    {windows[k].title : k \in {n \in 1..Len(windows) :
        /\ windows[n].own
        /\ windows[n].visible
        /\ Len(windows[n].title) >= 2
        /\ str_to_lowercase(windows[n].title) \notin JUNK}}

\* C28 (as claimed): what detect_game_name returns is never an empty name;
\* it is the configured display name when there is one, otherwise the
\* longest of the usable titles when there is one, otherwise the cleaned
\* file name.
C28_DetectionPriority ==
    dpc = "done" =>
        /\ detect_result # Some(<<>>)
        /\ IF NamedEntries # {}
           THEN detect_result =
                    games[CHOOSE k \in NamedEntries :
                              \A n \in NamedEntries : k <= n].name
           ELSE IF UsableTitles # {}
           THEN \E t \in UsableTitles :
                    /\ \A u \in UsableTitles : Len(u) <= Len(t)
                    /\ detect_result = Some(t)
           ELSE detect_result = name_from_exe(exe_path)

TaskStep(t) ==
    \/ TaskNoKey(t)
    \/ \E kind \in TransportKinds : TaskTransportError(t, kind)
    \/ \E code \in Statuses : TaskStatus(t, code)
    \/ TaskChunk(t)
    \/ TaskStreamError(t)
    \/ TaskStreamEnd(t)
    \/ TaskCancelled(t)

\* The rest of the Send handler once its first critical section has run.
FrameStep ==
    \/ SendClone
    \/ \E shot \in {None, Some("png")} : Capture(shot)
    \/ Spawn

\* Every HTTP task terminates: the runtime schedules each spawned task until
\* it has returned; and the render thread, which runs the Send handler as
\* straight-line code, reaches its RUNTIME.spawn.
SpecLive ==
    /\ Spec
    /\ \A t \in TaskIds : WF_vars(TaskStep(t))
    /\ WF_vars(FrameStep)

(***************************************************************************)
(* The session log, the stream and the state mutex.                        *)
(***************************************************************************)
\* logging.rs log_exchange: when LOG_PATH holds a path, one entry made of the
\* user block and the assistant block is appended to the file.
log_exchange(user_msg, assistant_msg) ==
    IF session_log
    THEN Append(log_entries, [you |-> user_msg, sage |-> assistant_msg])
    ELSE log_entries

\* The content of the last user message of a conversation.
LastUserContent(msgs) ==
    LET users == {k \in 1..Len(msgs) : msgs[k].role = User}
    IN  IF users = {} THEN <<>>
        ELSE msgs[CHOOSE k \in users : \A n \in users : n <= k].content

\* Task t commits the final assistant message of its request: send_message
\* returned Ok and the generation is current.
SuccessStep(t) ==
    /\ TaskActs(t)
    /\ tasks[t].pc = "stream"
    /\ tasks'[t].pc = "done"
    /\ tasks[t].gen = request_generation
    /\ tasks[t].full_text # <<>>
    /\ error' = error
    /\ ~is_loading'

\* C31 (as claimed): the step that commits the final assistant message of
\* the current generation appends exactly one entry, the user block and the
\* assistant block of the exchange, to the session log, and no other step
\* (a cancelled or failed request among them) appends anything.
C31_ExchangeLogged ==
    /\ [][\A t \in TaskIds :
             SuccessStep(t) =>
                 log_entries' = log_exchange(LastUserContent(messages),
                                             tasks[t].full_text)]_vars
    /\ [][(~\E t \in TaskIds : SuccessStep(t))
             => log_entries' = log_entries]_vars

\* The first n fragments of a stream, concatenated in arrival order.
RECURSIVE FragmentsUpTo(_)
FragmentsUpTo(n) ==
    IF n = 0 THEN <<>> ELSE FragmentsUpTo(n - 1) \o Fragment(n)

\* C32: while loading goes on under one generation, each value of
\* streaming_response is a prefix of the next; while the task of the current
\* generation is in flight, streaming_response is the concatenation of the
\* fragments it has received; the message a successful task commits is the
\* concatenation of all its fragments in arrival order; and a stream that
\* ends without a text fragment sets the error "Empty response from API."
\* and adds no message.
C32_StreamingAccumulates ==
    /\ [][(is_loading /\ is_loading'
             /\ request_generation' = request_generation)
          => IsPrefix(streaming_response, streaming_response')]_vars
    /\ [](\A t \in CurrentTasks :
             (is_loading /\ tasks[t].pc \in {"start", "stream"})
             => streaming_response = FragmentsUpTo(Len(tasks[t].full_text)))
    /\ [][\A t \in TaskIds :
             SuccessStep(t) =>
                 messages' = Append(messages,
                     ChatMessage(Assistant,
                         FragmentsUpTo(Len(tasks[t].full_text))))]_vars
    /\ [][\A t \in TaskIds :
             (TaskStreamEnd(t)
                /\ tasks[t].gen = request_generation
                /\ tasks[t].full_text = <<>>)
             => /\ error' = Some("Empty response from API.")
                /\ messages' = messages
                /\ ~is_loading']_vars

\* C32 witness: a request streamed two fragments and committed their
\* concatenation as the assistant message.
C32_Witness ==
    /\ ~is_loading
    /\ error = None
    /\ streaming_response = <<>>
    /\ messages # <<>>
    /\ Last(messages) = ChatMessage(Assistant, Fragment(1) \o Fragment(2))
    /\ \E t \in DOMAIN tasks :
          /\ tasks[t].pc = "done"
          /\ tasks[t].status = 200
          /\ tasks[t].gen = request_generation

\* C35: streaming_response is empty whenever is_loading is false; every step
\* that ends loading leaves it empty; and a task whose generation is not the
\* current one never changes it.
C35_IdleAccumulatorEmpty ==
    /\ [](~is_loading => streaming_response = <<>>)
    /\ [][(is_loading /\ ~is_loading') => streaming_response' = <<>>]_vars
    /\ [][\A t \in TaskIds :
             (TaskActs(t) /\ tasks[t].gen # request_generation')
             => streaming_response' = streaming_response]_vars

\* C35 witness: Clear Chat ended a request that had streamed text, the
\* accumulator is empty, and the stale task has since read a fragment and
\* dropped it.
C35_Witness ==
    /\ ~is_loading
    /\ streaming_response = <<>>
    /\ messages = <<>>
    /\ error = None
    /\ \E t \in DOMAIN tasks :
          /\ tasks[t].pc = "cancelled"
          /\ Len(tasks[t].full_text) = 2
          /\ tasks[t].gen < request_generation

\* C37 (as claimed): when Cancel's critical section runs after the task has
\* already ended loading (the frame had snapshotted is_loading = true),
\* Cancel does not set the error "Cancelled." and leaves the conversation,
\* the error and the generation as the task committed them.
C37_CancelOnlyInFlight ==
    [][(CancelStep /\ ~is_loading)
       => /\ error' # Some(CancelledError)
          /\ UNCHANGED <<messages, error, is_loading, request_generation>>]_vars

\* C36: whenever is_loading is set, a live task carries the current
\* generation or the Send handler that opened the generation is on its way
\* to spawning it; and, every task terminating, is_loading set leads to
\* is_loading cleared.
C36_LoadingEnds ==
    /\ [](is_loading =>
             \/ CurrentTasks # {}
             \/ /\ rpc \in {"clone", "capture", "spawn"}
                /\ generation = Some(request_generation))
    /\ (is_loading ~> ~is_loading)

\* C36 witness: a second request is loading and about to be spawned while
\* the task of the request before it, cancelled, is still running.
C36_Witness ==
    /\ is_loading
    /\ rpc = "spawn"
    /\ generation = Some(request_generation)
    /\ CurrentTasks = {}
    /\ \E t \in DOMAIN tasks : Live(t) /\ tasks[t].gen < request_generation

\* C38 (as claimed): when a tick of watch mode has finished its scan, the
\* injected PIDs are exactly the PIDs the name-to-PID map holds, and each of
\* them is a PID of the process list the tick enumerated, so that no PID of
\* an exited process is still tracked.
C38_TrackedSetsAgree ==
    (wpc = "scan" /\ todo = {}) =>
        /\ injected_pids =
               {active_injections[name] : name \in DOMAIN active_injections}
        /\ injected_pids \subseteq {pr.pid : pr \in procs}

\* The complete lines of a text: what precedes each of its newlines.
RECURSIVE CompleteLines(_)
CompleteLines(s) ==
    LET k == find_newline(s) IN
    IF k = 0 THEN <<>>
    ELSE <<SubSeq(s, 1, k - 1)>> \o CompleteLines(SubSeq(s, k + 1, Len(s)))

\* A line is well formed when, trimmed, it is the prefix followed by a
\* document that parses.
WellFormed(line) ==
    /\ strip_prefix(Trim(line), DataPrefix) # None
    /\ chunk_text_of(strip_prefix(Trim(line), DataPrefix)[1]) # None

\* The text a well-formed line carries.
TextOf(line) == chunk_text_of(strip_prefix(Trim(line), DataPrefix)[1])[1]

\* A line that is skipped: not blank, and without the prefix or with a
\* document that does not parse.
Skipped(line) == Trim(line) # <<>> /\ ~WellFormed(line)

\* The non-empty texts of the well-formed lines, in the order of the lines.
RECURSIVE ExpectedFragments(_)
ExpectedFragments(lines) ==
    IF lines = <<>> THEN <<>>
    ELSE IF WellFormed(Head(lines)) /\ TextOf(Head(lines)) # <<>>
    THEN <<TextOf(Head(lines))>> \o ExpectedFragments(Tail(lines))
    ELSE ExpectedFragments(Tail(lines))

RECURSIVE Concat(_)
Concat(seqs) == IF seqs = <<>> THEN <<>> ELSE Head(seqs) \o Concat(Tail(seqs))

\* The lines a step of the loop has completed.
NewLines ==
    SubSeq(CompleteLines(decoded'), Len(CompleteLines(decoded)) + 1,
           Len(CompleteLines(decoded')))

\* C33: a chunk that completes only lines that are blank, lack the prefix or
\* hold a document that does not parse leaves full_text, the accumulator,
\* the conversation and the error as they were and the loop goes on; at
\* every moment the texts pushed are the texts of the well-formed lines
\* received so far, in their order, whatever skipped lines lie between
\* them; and the stream's end gives Ok with their concatenation whenever
\* there is one.
C33_MalformedLinesSkipped ==
    /\ [][(decoded' # decoded
             /\ (\E k \in 1..Len(NewLines) : Skipped(NewLines[k]))
             /\ (\A n \in 1..Len(NewLines) : ~WellFormed(NewLines[n])))
          => /\ UNCHANGED <<full_text, fragments, streaming_response,
                            messages, error, is_loading, stream_result>>
             /\ spc' = "read"]_vars
    /\ [](/\ fragments = ExpectedFragments(CompleteLines(decoded))
          /\ full_text = Concat(fragments)
          /\ streaming_response = Concat(fragments))
    /\ [][(spc = "read" /\ spc' = "done" /\ sse_rest = <<>>
             /\ stream_result' # Some(Err("Stream error: e"))
             /\ fragments # <<>>)
          => stream_result' = Some(Ok(Concat(fragments)))]_vars

\* C33 witness: a line whose document does not parse and a line without the
\* prefix came between two lines with a text, and both texts were pushed.
C33_Witness ==
    /\ spc = "done"
    /\ sse_body = Flatten(<<<<" ">> \o DataPrefix \o <<"{", "x", "}", "\r">>,
                            DataPrefix \o <<"{", "x">>,
                            DataPrefix \o <<"{", "y", "}">>>>)
    /\ fragments = <<<<"x">>, <<"y">>>>
    /\ stream_result = Some(Ok(<<"x", "y">>))

\* C40 (as claimed): when the stream has ended, the texts pushed and the
\* text returned are those of the newline-terminated lines of the body,
\* however the transport cut the body into chunks; what follows the last
\* newline is never parsed.
C40_SplitIndependent ==
    (spc = "done" /\ stream_result # Some(Err("Stream error: e"))) =>
        LET expected ==
                ExpectedFragments(CompleteLines(from_utf8_lossy(sse_body)))
        IN  /\ fragments = expected
            /\ streaming_response = Concat(expected)
            /\ stream_result = Some(IF expected = <<>>
                                    THEN Err("Empty response from API.")
                                    ELSE Ok(Concat(expected)))

\* The threads of the runtime.
Background == TaskThreads \cup {"translate"}

\* C39: no thread calls lock() on the mutex while it holds it, so no thread
\* ever waits for itself; and the mutex is held only by a thread that is
\* inside one of its critical sections.
C39_NoSelfDeadlock ==
    /\ \A th \in Threads :
          /\ AtLock(th) => lock_holder # th
          /\ lpc[th] # "deadlocked"
    /\ lock_holder # "none" =>
          \E l \in Here(lock_holder) : l.op = "unlock"

\* C39 witness: the render thread stands at the lock of its write-back
\* while a task is inside the critical section of a chunk.
C39_Witness ==
    /\ lpc["render"] = "ui215"
    /\ lock_holder = "task1"
    /\ lpc["task1"] = "api251"
    /\ lpc["filter"] = "lib147"

\* C34: a task that is suspended at an await does not hold the mutex, and
\* every lock a task takes comes after an await and is dropped before the
\* next one: whenever the render thread stands at a lock while a task holds
\* the mutex, that task is running, not waiting for the network.
C34_NoLockAcrossAwait ==
    /\ [](\A th \in Background : AtAwait(th) => lock_holder # th)
    /\ [](\A th \in Threads :
             (AtLock(th) /\ lock_holder \in Background)
             => ~AtAwait(lock_holder))
    /\ [][\A th \in Background :
             (lock_holder = th /\ lpc'[th] # lpc[th])
             => lock_holder' = "none"]_vars

\* C34 witness: the render thread holds the mutex in its snapshot while one
\* task waits for the next chunk, another for the answer to its request,
\* and the translation for the local model.
C34_Witness ==
    /\ lock_holder = "render"
    /\ lpc["render"] = "ui31"
    /\ lpc["task1"] = "api224"
    /\ lpc["task2"] = "api193"
    /\ lpc["translate"] = "tr158"

====
